---- MODULE Spec2Model ----
(***************************************************************************)
(* A state-machine model of the Evo-Walk 2D physics engine (src/engine).   *)
(* The engine is single threaded; every action below is one whole call of  *)
(* a library function.  The subsystems are modelled side by side, each     *)
(* with its own variables and its own specification:                       *)
(*   SpecPairs      collision/pairs.py      the contact pair cache         *)
(*   SpecComposite  body/composite.py       the composite tree and caches  *)
(*   SpecBody       body/body.py            create / set_static / set_mass *)
(*   SpecCollision  collision/collision.py  the SAT narrowphase            *)
(*   SpecSleeping   core/sleeping.py        the sleeping state of a body   *)
(*   SpecSolver     collision/resolver.py   the resolver on boxes in a row *)
(*   SpecEngine     core/engine.py          the calls of one Engine.update *)
(***************************************************************************)
EXTENDS Integers, Sequences, FiniteSets, TLC

(***************************************************************************)
(* Bounds of the model (not program constants).                            *)
(***************************************************************************)
\* bodies known to the pair cache carry the ids 1..NumBodies
NumBodies == 3
\* Pairs.update is called while the simulation time stays within MaxTime ms
MaxTime == 3000
\* the longest collision list handed to one Pairs.update
MaxCollisions == 2
\* composites 1..NumComposites exist; composite 1 is the world (the root)
NumComposites == 3
\* bodies 1..NumCompositeBodies can be put into composites
NumCompositeBodies == 1
\* constraints 1..NumConstraints can be put into composites
NumConstraints == 1
\* Body.create is called at most NumRigidBodies times
NumRigidBodies == 2
\* Body.set_parts is called at most MaxSetParts times
MaxSetParts == 2
\* the cached normal impulse of a contact stays within -MaxImpulse..0
MaxImpulse == 1
\* the sleep_threshold of the bodies whose sleep state is followed
SleepThreshold == 3
\* Sleeping.update is called at most MaxTicks times
MaxTicks == 5
\* the rectangles are centred on grid points -GridRadius..GridRadius
GridRadius == 1

(***************************************************************************)
(* Program constants.                                                      *)
(***************************************************************************)
\* pairs.py:92   "timestamp - pair['time_updated'] > 1000"
RetentionHorizon == 1000

VARIABLES
    \* ---- collision/pairs.py: the structure returned by Pairs.create
    pairs_table,       \* keys of pairs['table']
    pairs_list,        \* pairs['list'], a sequence of pair references
    collision_start,   \* pairs['collision_start']
    collision_active,  \* pairs['collision_active']
    collision_end,     \* pairs['collision_end']
    pairObj,           \* the pair objects themselves, by reference (= pair id)
    timestamp,         \* engine timing.timestamp handed to Pairs.update
    collisions,        \* the collision list handed to the latest Pairs.update
    wasCached,         \* the pairs of the list when the latest update began
    wasActive,         \* those of them that were active when it began
    pairsOp,           \* the latest operation on the pair cache
    events,            \* the events triggered by the latest Engine.update, in
                       \* the order of the calls of Events.trigger
    \* ---- body/composite.py
    comp,              \* the composite dicts, by composite id
    compOp,            \* the latest operation on a composite
    \* ---- body/body.py
    bodies,            \* the body dicts made by Body.create, by slot
    bodyOp,            \* the latest operation on a body
    partsCalls,        \* the number of Body.set_parts calls so far
    episode,           \* the body on which set_static(true) calls follow
                       \* one another, and its parts before the first one
    \* ---- core/sleeping.py, the sleep state of one body
    sleeper,           \* the body
    ticks,             \* the number of Sleeping.update calls so far
    recent,            \* was motion below the sleep threshold, in each of
                       \* the latest sleep_threshold updates
    before,            \* the body as it was when the latest call began
    sleepOp,           \* the latest call
    \* ---- collision/collision.py, the narrowphase on two rectangles
    rects,             \* the two bodies: id, position, half width and height
    record,            \* the collision record kept in the pair of the bodies
    returned,          \* what the latest Collision.collides returned
    collOp,            \* the latest operation on the two bodies
    \* ---- collision/pairs.py: calls of Pairs.id_from_bodies
    idCalls,           \* the latest call: arguments and result
    \* ---- body/body.py: set_velocity and get_velocity on one body, x components
    mover,             \* position, position_prev, velocity, speed, delta_time
    asked,             \* the velocity the latest set_velocity was given,
                       \* and the position of the body before it
    got,               \* what the latest get_velocity returned
    rounded,           \* whether an operation of the latest calls rounded
    velOp,             \* the latest operation on the body
    \* ---- collision/detector.py: the bodies Detector.collisions works on
    world,             \* the two bodies: bounds, flags and collision filter
    detOp,             \* the latest operation on the bodies
    \* ---- constraint/constraint.py
    ends,              \* the two endpoints of the constraint: the bodies, or none
    link,              \* the constraint: its points and its rest length
    solved,            \* the endpoints before the latest solve, and whether it raised
    conOp,             \* "none", "create" or "solve"
    \* ---- core/sleeping.py, after_collisions on a list
    crowd,             \* the bodies of the pairs, by id
    crowdBefore,       \* the bodies before the latest after_collisions
    started,           \* the list the latest after_collisions was given
    wakeOp,            \* "none", "create" or "after_collisions"
    \* ---- collision/detector.py, the sweep and prune
    swept,             \* the bodies of the detector, by id
    listed,            \* the order of detector['bodies'] at the latest call
    narrowCalls,       \* the calls of Collision.collides of the latest Detector.collisions
    sweepOp,           \* "none", "create" or "collisions"
    \* ---- Engine.update on a world of boxes in a row
    solid,             \* the bodies, by id
    solidBefore,       \* the bodies when the latest Engine.update began
    counted,           \* total_contacts of the bodies when solve_position was called
    position_iterations, \* engine['position_iterations']
    solverOp,          \* the latest operation on the world of boxes
    \* ---- core/engine.py: the calls of one Engine.update
    engine,            \* the options of the engine, the bodies and the constraints of its world
    callLog,           \* the calls the latest Engine.update made, in order
    engineOp           \* "none", "create" or "update"

pairsVars == <<pairs_table, pairs_list, collision_start, collision_active,
               collision_end, pairObj, timestamp, collisions, wasCached,
               wasActive, pairsOp, events>>

compVars == <<comp, compOp>>

bodyVars == <<bodies, bodyOp, partsCalls, episode>>

sleepVars == <<sleeper, ticks, recent, before, sleepOp>>

collVars == <<rects, record, returned, collOp>>

idVars == <<idCalls>>

velVars == <<mover, asked, got, rounded, velOp>>

detVars == <<world, detOp>>

conVars == <<ends, link, solved, conOp>>

wakeVars == <<crowd, crowdBefore, started, wakeOp>>

sweepVars == <<swept, listed, narrowCalls, sweepOp>>

solverVars == <<solid, solidBefore, counted, position_iterations, solverOp>>

engineVars == <<engine, callLog, engineOp>>

vars == <<pairsVars, compVars, bodyVars, sleepVars, collVars, idVars,
          velVars, detVars, conVars, wakeVars, sweepVars, solverVars,
          engineVars>>

\* what the operations of one module leave alone: the state of the others
exceptPairs == <<compVars, bodyVars, sleepVars, collVars, idVars, velVars,
                 detVars, conVars, wakeVars, sweepVars, solverVars,
                 engineVars>>

exceptComposite == <<pairsVars, bodyVars, sleepVars, collVars, idVars,
                     velVars, detVars, conVars, wakeVars, sweepVars,
                     solverVars, engineVars>>

exceptBody == <<pairsVars, compVars, sleepVars, collVars, idVars, velVars,
                detVars, conVars, wakeVars, sweepVars, solverVars,
                engineVars>>

exceptSleeping == <<pairsVars, compVars, bodyVars, collVars, idVars, velVars,
                    detVars, conVars, wakeVars, sweepVars, solverVars,
                    engineVars>>

exceptCollision == <<pairsVars, compVars, bodyVars, sleepVars, idVars,
                     velVars, detVars, conVars, wakeVars, sweepVars,
                     solverVars, engineVars>>

exceptIds == <<pairsVars, compVars, bodyVars, sleepVars, collVars, velVars,
               detVars, conVars, wakeVars, sweepVars, solverVars, engineVars>>

exceptVelocity == <<pairsVars, compVars, bodyVars, sleepVars, collVars,
                    idVars, detVars, conVars, wakeVars, sweepVars,
                    solverVars, engineVars>>

exceptDetector == <<pairsVars, compVars, bodyVars, sleepVars, collVars,
                    idVars, velVars, conVars, wakeVars, sweepVars,
                    solverVars, engineVars>>

exceptPairsAndDetector == <<compVars, bodyVars, sleepVars, collVars, idVars,
                            velVars, conVars, wakeVars, sweepVars,
                            solverVars, engineVars>>

exceptPairsAndCollision == <<compVars, bodyVars, sleepVars, idVars, velVars,
                             detVars, conVars, wakeVars, sweepVars,
                             solverVars, engineVars>>

exceptConstraint == <<pairsVars, compVars, bodyVars, sleepVars, collVars,
                      idVars, velVars, detVars, wakeVars, sweepVars,
                      solverVars, engineVars>>

exceptWake == <<pairsVars, compVars, bodyVars, sleepVars, collVars, idVars,
                velVars, detVars, conVars, sweepVars, solverVars, engineVars>>

exceptSweep == <<pairsVars, compVars, bodyVars, sleepVars, collVars, idVars,
                 velVars, detVars, conVars, wakeVars, solverVars, engineVars>>

exceptSolver == <<pairsVars, compVars, bodyVars, sleepVars, collVars, idVars,
                  velVars, detVars, conVars, wakeVars, sweepVars, engineVars>>

exceptPairsAndSolver == <<compVars, bodyVars, sleepVars, collVars, idVars,
                          velVars, detVars, conVars, wakeVars, sweepVars,
                          engineVars>>

exceptEngine == <<pairsVars, compVars, bodyVars, sleepVars, collVars, idVars,
                  velVars, detVars, conVars, wakeVars, sweepVars, solverVars>>

(***************************************************************************)
(* Helpers on sequences.                                                   *)
(***************************************************************************)
Range(s) == {s[i] : i \in 1..Len(s)}

SeqsUpTo(S, n) == UNION {[1..k -> S] : k \in 0..n}

\* list.remove(x): drops the first element equal to x
RemoveFirst(s, x) ==
    IF \E i \in 1..Len(s) : s[i] = x
    THEN LET i == CHOOSE j \in 1..Len(s) : s[j] = x /\ \A k \in 1..(j-1) : s[k] # x
         IN  SubSeq(s, 1, i-1) \o SubSeq(s, i+1, Len(s))
    ELSE s

Count(s, x) == Cardinality({i \in 1..Len(s) : s[i] = x})

(***************************************************************************)
(* collision/pairs.py                                                      *)
(***************************************************************************)
BodyIds == 1..NumBodies

DigitChar(d) ==
    CASE d = 0 -> "0" [] d = 1 -> "1" [] d = 2 -> "2" [] d = 3 -> "3"
      [] d = 4 -> "4" [] d = 5 -> "5" [] d = 6 -> "6" [] d = 7 -> "7"
      [] d = 8 -> "8" [] d = 9 -> "9"

\* str(n) of a non-negative integer, as the sequence of its decimal digits
RECURSIVE Decimal(_)
Decimal(n) == IF n < 10 THEN <<DigitChar(n)>>
              ELSE Decimal(n \div 10) \o <<DigitChar(n % 10)>>

\* the f-string f"A{x}B{y}"
FormatId(x, y) == <<"A">> \o Decimal(x) \o <<"B">> \o Decimal(y)

id_from_bodies_swapless(body_a, body_b) == FormatId(body_a, body_b)

\* Pairs.id_from_bodies: the smaller body id goes first
id_from_bodies(body_a, body_b) ==
    IF body_a < body_b THEN FormatId(body_a, body_b)
                       ELSE FormatId(body_b, body_a)

\* the bodies stand in a row: a body touches only the next one
Touching == {q \in BodyIds \X BodyIds : q[2] = q[1] + 1}

PairIds == {id_from_bodies(q[1], q[2]) : q \in Touching}

\* a collision record as Pairs.update reads it: the two parents and the supports
Collisions == [parent_a : BodyIds, parent_b : BodyIds, support_count : {1, 2}]
CollisionInputs == {c \in Collisions : <<c.parent_a, c.parent_b>> \in Touching}

\* the lists Detector.collisions hands to Pairs.update; to keep the lists few,
\* the collisions of one list have the same number of supports
CollisionLists ==
    {cs \in SeqsUpTo(CollisionInputs, MaxCollisions) :
        \A i, j \in 1..Len(cs) : cs[i].support_count = cs[j].support_count}

CollisionId(c) == id_from_bodies(c.parent_a, c.parent_b)

Contact(n, t) == [normal_impulse |-> n, tangent_impulse |-> t]

\* Pairs._create_pair
_create_pair(collision, ts) ==
    [ id            |-> id_from_bodies(collision.parent_a, collision.parent_b),
      collision     |-> collision,
      contacts      |-> <<Contact(0, 0), Contact(0, 0)>>,
      contact_count |-> collision.support_count,
      is_active     |-> TRUE,
      confirmed     |-> TRUE,
      time_created  |-> ts,
      time_updated  |-> ts ]

\* the state Pairs.update works on while it runs
PairsState(table, list, start, active, end, obj) ==
    [table |-> table, list |-> list, start |-> start, active |-> active,
     end |-> end, obj |-> obj]

\* pairs.py:33-34: "for pair in pairs_list: pair['confirmed'] = False"
MarkUnconfirmed(st) ==
    [st EXCEPT !.obj = [id \in DOMAIN st.obj |->
        IF id \in Range(st.list) THEN [st.obj[id] EXCEPT !.confirmed = FALSE]
                                 ELSE st.obj[id]]]

\* as UpdateExisting, but a cached pair always counts as started
UpdateExisting_AlwaysStart(st, collision, ts) ==
    LET pair_id == CollisionId(collision)
        pair    == st.obj[pair_id]
    IN  [st EXCEPT
            !.start  = Append(@, pair_id),
            !.obj    = [@ EXCEPT ![pair_id] =
                           [pair EXCEPT !.is_active     = TRUE,
                                        !.time_created  = ts,
                                        !.time_updated  = ts,
                                        !.collision     = collision,
                                        !.confirmed     = TRUE,
                                        !.contact_count = collision.support_count]]]

\* pairs.py:42-70: the pair is in the table
UpdateExisting(st, collision, ts) ==
    LET pair_id == CollisionId(collision)
        pair    == st.obj[pair_id]
    IN  [st EXCEPT
            !.active = IF pair.is_active THEN Append(@, pair_id) ELSE @,
            !.start  = IF pair.is_active THEN @ ELSE Append(@, pair_id),
            !.obj    = [@ EXCEPT ![pair_id] =
                           [pair EXCEPT !.is_active     = TRUE,
                                        !.time_created  = ts,
                                        !.time_updated  = ts,
                                        !.collision     = collision,
                                        !.confirmed     = TRUE,
                                        !.contact_count = collision.support_count]]]

\* pairs.py:72-76: the pair is not in the table
CreateNew(st, collision, ts) ==
    LET pair_id == CollisionId(collision)
        pair    == _create_pair(collision, ts)
    IN  [st EXCEPT
            !.table = @ \cup {pair_id},
            !.start = Append(@, pair_id),
            !.list  = Append(@, pair_id),
            !.obj   = [id \in DOMAIN @ \cup {pair_id} |->
                          IF id = pair_id THEN pair ELSE @[id]]]

\* pairs.py:37-76: one pass of "for i, collision in enumerate(collisions)"
ProcessCollision(st, collision, ts) ==
    IF CollisionId(collision) \in st.table
    THEN UpdateExisting(st, collision, ts)
    ELSE CreateNew(st, collision, ts)

RECURSIVE ProcessCollisions(_, _, _)
ProcessCollisions(st, cs, ts) ==
    IF cs = <<>> THEN st
    ELSE ProcessCollisions(ProcessCollision(st, Head(cs), ts), Tail(cs), ts)

ZeroContacts(contacts) ==
    [j \in DOMAIN contacts |-> Contact(0, 0)]

\* as IsOld, but a pair idle for exactly the horizon is old already
IsOld_AtHorizon(pair, ts) == ts - pair.time_updated >= RetentionHorizon

\* pairs.py:92: "if timestamp - pair['time_updated'] > 1000"
IsOld(pair, ts) == ts - pair.time_updated > RetentionHorizon

\* as EndPair, but the contact impulses are left as they are
EndPair_KeepImpulses(st, pair_id) ==
    [st EXCEPT
        !.end = Append(@, pair_id),
        !.obj = [@ EXCEPT ![pair_id] = [@ EXCEPT !.is_active = FALSE]]]

\* pairs.py:80-93: one pass of "for pair in pairs_list" over an unconfirmed pair
EndPair(st, pair_id) ==
    [st EXCEPT
        !.end = Append(@, pair_id),
        !.obj = [@ EXCEPT ![pair_id] =
                    [@ EXCEPT !.is_active = FALSE,
                              !.contacts  = ZeroContacts(@)]]]

RECURSIVE FindEnded(_, _)
FindEnded(st, rest) ==
    IF rest = <<>> THEN st
    ELSE IF st.obj[Head(rest)].confirmed
         THEN FindEnded(st, Tail(rest))
         ELSE FindEnded(EndPair(st, Head(rest)), Tail(rest))

\* pairs.py:79-93: pairs_to_remove, in list order
PairsToRemove(st, ts) ==
    SelectSeq(st.list, LAMBDA id : ~st.obj[id].confirmed /\ IsOld(st.obj[id], ts))

\* pairs.py:96-100: "del pairs_table[pair_id]; pairs_list.remove(pair)"
RECURSIVE RemoveOld(_, _)
RemoveOld(st, old) ==
    IF old = <<>> THEN st
    ELSE RemoveOld([st EXCEPT !.table = @ \ {st.obj[Head(old)].id},
                              !.list  = RemoveFirst(@, Head(old))],
                   Tail(old))

\* a pair object nothing refers to any more is gone
Collect(st) ==
    LET live == st.table \cup Range(st.list) \cup Range(st.start)
                \cup Range(st.active) \cup Range(st.end)
    IN  [st EXCEPT !.obj = [id \in live \cap DOMAIN st.obj |-> st.obj[id]]]

\* pairs.py:78-100: end the unconfirmed pairs, then remove the old ones
FinishUpdate(detected, ts) ==
    RemoveOld(FindEnded(detected, detected.list), PairsToRemove(detected, ts))

\* Pairs.update(pairs, collisions, timestamp), whole
PairsUpdate(st0, cs, ts) ==
    LET cleared  == [st0 EXCEPT !.start = <<>>, !.end = <<>>, !.active = <<>>]
        unmarked == MarkUnconfirmed(cleared)
        detected == ProcessCollisions(unmarked, cs, ts)
    IN  Collect(FinishUpdate(detected, ts))

CurrentPairs ==
    PairsState(pairs_table, pairs_list, collision_start, collision_active,
               collision_end, pairObj)

\* the simulation time advances by one of these steps between two updates
Deltas == {1000}

\* Events.trigger(engine, name, event): the subscribers of name are called
\* with event; log is the sequence of the calls made so far
trigger(log, name, event) == Append(log, [name |-> name, event |-> event])

\* as TriggerFilled, without the test of the list
TriggerFilled_Always(log, name, pairs) ==
    trigger(log, name, [pairs |-> pairs])

\* "if pairs['collision_start']: Events.trigger(engine, 'collisionStart',
\* {'pairs': pairs['collision_start']})", and so for the other two lists
TriggerFilled(log, name, pairs) ==
    IF pairs # <<>> THEN trigger(log, name, [pairs |-> pairs]) ELSE log

\* engine.py:68, 106-107, 128-132 and 142: the triggers of one update, on
\* the three lists Pairs.update has left
Triggered(ts, dt, start, active, end) ==
    trigger(TriggerFilled(
                TriggerFilled(
                    TriggerFilled(
                        trigger(<<>>, "beforeUpdate",
                                [timestamp |-> ts, delta |-> dt]),
                        "collisionStart", start),
                    "collisionActive", active),
                "collisionEnd", end),
            "afterUpdate", [timestamp |-> ts, delta |-> dt])

\* Engine.update lines 64-68, 96-107, 128-132 and 142: advance the time,
\* update the pair cache, trigger the events
UpdatePairs(cs, dt) ==
    /\ timestamp + dt <= MaxTime
    /\ \E st \in {PairsUpdate(CurrentPairs, cs, timestamp + dt)} :
           /\ pairs_table' = st.table
           /\ pairs_list' = st.list
           /\ collision_start' = st.start
           /\ collision_active' = st.active
           /\ collision_end' = st.end
           /\ pairObj' = st.obj
    /\ timestamp' = timestamp + dt
    /\ collisions' = cs
    /\ wasCached' = Range(pairs_list)
    /\ wasActive' = {id \in Range(pairs_list) : pairObj[id].is_active}
    /\ pairsOp' = "update"
    /\ events' = Triggered(timestamp + dt, dt, collision_start',
                           collision_active', collision_end')

\* an update of the engine with the collisions cs detected
Update(cs, dt) ==
    /\ UpdatePairs(cs, dt)
    /\ UNCHANGED exceptPairs

\* resolver.py:10, and the threshold of solve_velocity for a step of the base
\* length (time_scale = 1)
_resting_thresh == 2

resting_thresh == 0 - _resting_thresh

\* the normal impulse solve_velocity leaves on a contact, without the clamp
NormalImpulse_Unclamped(old, normal_velocity) ==
    IF normal_velocity < resting_thresh THEN 0 ELSE old + normal_velocity

\* resolver.py:272-285: the normal impulse solve_velocity leaves on a contact
\* whose cached impulse is old, for a raw impulse equal to the normal velocity
\* ((1 + restitution) * share = 1)
NormalImpulse(old, normal_velocity) ==
    IF normal_velocity < resting_thresh THEN 0
    ELSE IF old + normal_velocity > 0 THEN 0
    ELSE old + normal_velocity

\* what solve_velocity finds at a contact: the normal velocity, and the tangent
\* impulse it leaves, which is clamped to +-max_friction
VelocityChoices ==
    {[normal_velocity |-> 0 - 3, tangent_impulse |-> 0],
     [normal_velocity |-> 0 - 1, tangent_impulse |-> 0],
     [normal_velocity |-> 1, tangent_impulse |-> 1]}

\* the contacts that are separating, or closing fast: they cache no normal
\* impulse
UnloadedChoices == {c \in VelocityChoices : c.normal_velocity # 0 - 1}

\* the contacts of a pair after solve_velocity
Solved(pair, choice) ==
    [j \in DOMAIN pair.contacts |->
        IF j <= pair.contact_count
        THEN Contact(NormalImpulse(pair.contacts[j].normal_impulse,
                                   choice.normal_velocity),
                     choice.tangent_impulse)
        ELSE pair.contacts[j]]

\* Resolver.solve_velocity: writes the impulses of the first contact_count
\* contacts of every active pair of the list.  The body velocities are not part
\* of this model: every contact of the pass sees the same normal velocity, and
\* cached impulses stay within MaxImpulse.
SolveVelocity(choice) ==
    /\ \E id \in Range(pairs_list) : pairObj[id].is_active
    /\ pairObj' = [id \in DOMAIN pairObj |->
          IF id \in Range(pairs_list) /\ pairObj[id].is_active
          THEN [pairObj[id] EXCEPT !.contacts = Solved(pairObj[id], choice)]
          ELSE pairObj[id]]
    /\ \A id \in DOMAIN pairObj : \A j \in DOMAIN pairObj[id].contacts :
          pairObj'[id].contacts[j].normal_impulse >= 0 - MaxImpulse
    /\ pairsOp' = "solve_velocity"
    /\ UNCHANGED <<pairs_table, pairs_list, collision_start, collision_active,
                   collision_end, timestamp, collisions, wasCached, wasActive,
                   events>>
    /\ UNCHANGED exceptPairs

InitPairs ==
    /\ pairs_table = {}
    /\ pairs_list = <<>>
    /\ collision_start = <<>>
    /\ collision_active = <<>>
    /\ collision_end = <<>>
    /\ pairObj = <<>>
    /\ timestamp = 0
    /\ collisions = <<>>
    /\ wasCached = {}
    /\ wasActive = {}
    /\ pairsOp = "create"
    /\ events = <<>>

NextPairs ==
    \/ \E cs \in CollisionLists, dt \in Deltas : Update(cs, dt)
    \/ \E choice \in UnloadedChoices : SolveVelocity(choice)

\* updates that detect at most one collision, and every kind of contact
NextResolver ==
    \/ \E cs \in CollisionLists, dt \in Deltas : Len(cs) <= 1 /\ Update(cs, dt)
    \/ \E choice \in VelocityChoices : SolveVelocity(choice)

(***************************************************************************)
(* body/composite.py                                                       *)
(***************************************************************************)
Composites == 1..NumComposites
Root == 1
CompositeBodies == 1..NumCompositeBodies
Constraints == 1..NumConstraints
Kinds == {"body", "constraint", "composite"}

\* a cache entry: None (valid = FALSE) or a list.  Every reader of a cache
\* tests its truth value, which is false for None and for the empty list alike,
\* so a cached empty list is kept as None.
NoCache == [valid |-> FALSE, items |-> <<>>]
Cached(items) == IF items = <<>> THEN NoCache ELSE [valid |-> TRUE, items |-> items]

\* Python truthiness of a cache entry: None and the empty list are false
Truthy(cache) == cache.valid /\ cache.items # <<>>

\* Composite.create; parent 0 stands for None
CreateComposite ==
    [ parent           |-> 0,
      is_modified      |-> FALSE,
      bodies           |-> <<>>,
      constraints      |-> <<>>,
      composites       |-> <<>>,
      cache_bodies     |-> NoCache,
      cache_constraints |-> NoCache ]

\* composite['bodies'] / ['constraints'] / ['composites'], by the kind of object
Items(c, kind) ==
    CASE kind = "body"       -> c.bodies
      [] kind = "constraint" -> c.constraints
      [] kind = "composite"  -> c.composites

SetItems(c, kind, items) ==
    CASE kind = "body"       -> [c EXCEPT !.bodies = items]
      [] kind = "constraint" -> [c EXCEPT !.constraints = items]
      [] kind = "composite"  -> [c EXCEPT !.composites = items]

\* the composites set_modified(c, True, update_parents=True) visits: c, its
\* parent, the parent's parent, ...  (when the parent references form a cycle
\* the recursion of the code never ends by itself: every composite of the
\* cycle has been invalidated by the time it overflows)
RECURSIVE ParentChain(_, _, _)
ParentChain(cs, c, seen) ==
    IF c \in seen THEN seen
    ELSE IF cs[c].parent = 0 THEN seen \cup {c}
    ELSE ParentChain(cs, cs[c].parent, seen \cup {c})

\* Composite.set_modified(composite, True, update_parents=True)
set_modified(cs, c) ==
    LET chain == ParentChain(cs, c, {})
    IN  [x \in DOMAIN cs |->
            IF x \in chain
            THEN [cs[x] EXCEPT !.is_modified = TRUE,
                               !.cache_bodies = NoCache,
                               !.cache_constraints = NoCache]
            ELSE cs[x]]

\* Composite.add_body / add_constraint / add_composite
add_object(cs, c, kind, x) ==
    LET appended == [cs EXCEPT ![c] = SetItems(@, kind, Append(Items(@, kind), x))]
        owned    == IF kind = "composite"
                    THEN [appended EXCEPT ![x].parent = c]
                    ELSE appended
    IN  set_modified(owned, c)

\* Composite.add for one object: nothing happens when it is already there
add(cs, c, kind, x) ==
    IF x \in Range(Items(cs[c], kind)) THEN cs ELSE add_object(cs, c, kind, x)

\* Composite.remove_body_at / remove_constraint_at / remove_composite_at
remove_at(cs, c, kind, x) ==
    set_modified([cs EXCEPT ![c] = SetItems(@, kind, RemoveFirst(Items(@, kind), x))], c)

\* Composite.remove_body / remove_constraint / remove_composite
RECURSIVE remove(_, _, _, _, _)
RECURSIVE RemoveFromChildren(_, _, _, _)
remove(cs, c, kind, x, deep) ==
    LET here == IF x \in Range(Items(cs[c], kind)) THEN remove_at(cs, c, kind, x) ELSE cs
    IN  IF deep THEN RemoveFromChildren(here, here[c].composites, kind, x) ELSE here

\* "for child in composite['composites']: remove_xxx(child, obj, deep=True)"
RemoveFromChildren(cs, children, kind, x) ==
    IF children = <<>> THEN cs
    ELSE RemoveFromChildren(remove(cs, Head(children), kind, x, TRUE),
                            Tail(children), kind, x)

\* the composites below c (children, their children, ...)
RECURSIVE Below(_, _)
Below(cs, c) ==
    Range(cs[c].composites)
        \cup UNION {Below(cs, d) : d \in Range(cs[c].composites)}

\* the list a call of all_bodies / all_constraints on c returns, given the caches
RECURSIVE Flatten(_, _, _)
RECURSIVE FlattenChildren(_, _, _)
Flatten(cs, c, kind) ==
    LET cache == IF kind = "body" THEN cs[c].cache_bodies ELSE cs[c].cache_constraints
    IN  IF Truthy(cache) THEN cache.items
        ELSE Items(cs[c], kind) \o FlattenChildren(cs, cs[c].composites, kind)

FlattenChildren(cs, children, kind) ==
    IF children = <<>> THEN <<>>
    ELSE Flatten(cs, Head(children), kind) \o FlattenChildren(cs, Tail(children), kind)

\* the composites whose cache a call of all_bodies / all_constraints on c fills
RECURSIVE Filled(_, _, _)
Filled(cs, c, kind) ==
    LET cache == IF kind = "body" THEN cs[c].cache_bodies ELSE cs[c].cache_constraints
    IN  IF Truthy(cache) THEN {}
        ELSE {c} \cup UNION {Filled(cs, d, kind) : d \in Range(cs[c].composites)}

\* Composite.all_bodies: the composites after the call
all_bodies(cs, c) ==
    [x \in DOMAIN cs |->
        IF x \in Filled(cs, c, "body")
        THEN [cs[x] EXCEPT !.cache_bodies = Cached(Flatten(cs, x, "body"))]
        ELSE cs[x]]

\* Composite.all_constraints: the composites after the call
all_constraints(cs, c) ==
    [x \in DOMAIN cs |->
        IF x \in Filled(cs, c, "constraint")
        THEN [cs[x] EXCEPT !.cache_constraints = Cached(Flatten(cs, x, "constraint"))]
        ELSE cs[x]]

\* a depth-first traversal that reads no cache
RECURSIVE Traverse(_, _, _)
RECURSIVE TraverseChildren(_, _, _)
Traverse(cs, c, kind) ==
    Items(cs[c], kind) \o TraverseChildren(cs, cs[c].composites, kind)

TraverseChildren(cs, children, kind) ==
    IF children = <<>> THEN <<>>
    ELSE Traverse(cs, Head(children), kind) \o TraverseChildren(cs, Tail(children), kind)

ObjectsOf(kind) ==
    CASE kind = "body"       -> CompositeBodies
      [] kind = "constraint" -> Constraints
      [] kind = "composite"  -> Composites \ {Root}

\* Composite.add(composite, obj).  The world is never put into a composite, and
\* no composite is put below itself: all_bodies does not return on a cycle.
Add(c, kind, x) ==
    /\ x \notin Range(Items(comp[c], kind))
    /\ kind = "composite" => (x # c /\ c \notin Below(comp, x))
    /\ comp' = add(comp, c, kind, x)
    /\ compOp' = "add"
    /\ UNCHANGED exceptComposite

\* Composite.remove(composite, obj, deep)
Remove(c, kind, x, deep) ==
    /\ comp' = remove(comp, c, kind, x, deep)
    /\ comp' # comp
    /\ compOp' = "remove"
    /\ UNCHANGED exceptComposite

\* Composite.all_bodies(composite)
AllBodies(c) ==
    /\ comp' = all_bodies(comp, c)
    /\ comp' # comp
    /\ compOp' = "all_bodies"
    /\ UNCHANGED exceptComposite

\* Composite.all_constraints(composite)
AllConstraints(c) ==
    /\ comp' = all_constraints(comp, c)
    /\ comp' # comp
    /\ compOp' = "all_constraints"
    /\ UNCHANGED exceptComposite

InitComposite ==
    /\ comp = [c \in Composites |-> CreateComposite]
    /\ compOp = "create"

NextComposite ==
    \/ \E c \in Composites, kind \in Kinds : \E x \in ObjectsOf(kind) : Add(c, kind, x)
    \/ \E c \in Composites, kind \in Kinds, deep \in BOOLEAN :
          \E x \in ObjectsOf(kind) : Remove(c, kind, x, deep)
    \/ \E c \in Composites : AllBodies(c)
    \/ \E c \in Composites : AllConstraints(c)

(***************************************************************************)
(* body/body.py: mass properties of a body.  Python floats are modelled as *)
(* non-negative fractions n/d in lowest terms; 1/0 is float('inf') and 0/0 *)
(* is nan, so that inf/inf, inf*0 and every operation on nan give nan, and *)
(* 1/inf gives 0, as IEEE arithmetic does.                                 *)
(***************************************************************************)
RECURSIVE GCD(_, _)
GCD(a, b) == IF b = 0 THEN a ELSE GCD(b, a % b)

Rat(n, d) ==
    IF d = 0 THEN [n |-> IF n = 0 THEN 0 ELSE 1, d |-> 0]
    ELSE [n |-> n \div GCD(n, d), d |-> d \div GCD(n, d)]

Zero == Rat(0, 1)
Inf == Rat(1, 0)
NaN == Rat(0, 0)

IsFinite(x) == x.d # 0
Mul(x, y) == Rat(x.n * y.n, x.d * y.d)
Div(x, y) == Rat(x.n * y.d, x.d * y.n)
\* "1 / x if x != 0 else 0"
Inverse(x) == IF x # Zero THEN Div(Rat(1, 1), x) ELSE Zero
\* Python truthiness of a float
TruthyNumber(x) == x # Zero

RigidBodies == 1..NumRigidBodies

\* body.py:13
_inertia_scale == Rat(4, 1)
\* the default vertices 'L 0 0 L 40 0 L 40 40 L 0 40': Vertices.area of them
DefaultArea == Rat(40 * 40, 1)
\* Vertices.inertia(vertices, mass) of the default square about its centre:
\* numerator / denominator = 4 * 800 * 1600 / (4 * 800)
VerticesInertia(mass) == Mul(Div(mass, Rat(6, 1)), Rat(1600, 1))

NoOriginal ==
    [present |-> FALSE, restitution |-> Zero, friction |-> Zero, mass |-> Zero,
     inertia |-> Zero, density |-> Zero, inverse_mass |-> Zero,
     inverse_inertia |-> Zero]

\* the options Body.create is called with; mass / inertia Zero: not supplied
BodyOptions ==
    [is_static : BOOLEAN,
     density : {Rat(1, 1000)},
     mass : {Zero, Rat(5, 1)},
     inertia : {Zero, Rat(7, 1)}]

\* Body.create() without options
DefaultOptions ==
    [is_static |-> FALSE, density |-> Rat(1, 1000), mass |-> Zero,
     inertia |-> Zero]

\* a slot in which no body has been created yet
NoBody ==
    [created |-> FALSE, is_static |-> FALSE, density |-> Zero, mass |-> Zero,
     inertia |-> Zero, inverse_mass |-> Zero, inverse_inertia |-> Zero,
     area |-> Zero, restitution |-> Zero, friction |-> Zero,
     original |-> NoOriginal, id |-> 0, parts |-> <<>>, parent |-> 0]

\* Common.extend(defaults, options) in Body.create
BodyDefaults(options, id) ==
    [created |-> TRUE, is_static |-> options.is_static,
     density |-> options.density, mass |-> options.mass,
     inertia |-> options.inertia, inverse_mass |-> Zero,
     inverse_inertia |-> Zero, area |-> Zero, restitution |-> Zero,
     friction |-> Rat(1, 10), original |-> NoOriginal, id |-> id,
     parts |-> <<>>, parent |-> 0]

\* Body.set_mass
set_mass(b, mass) ==
    LET moment == IF b.mass # Zero
                  THEN Div(b.inertia, Div(b.mass, Rat(6, 1))) ELSE Zero
        inertia == Mul(moment, Div(mass, Rat(6, 1)))
    IN  [b EXCEPT !.inertia = inertia,
                  !.inverse_inertia = Inverse(inertia),
                  !.mass = mass,
                  !.inverse_mass = Inverse(mass),
                  !.density = IF b.area # Zero THEN Div(mass, b.area)
                              ELSE Zero]

\* Body.set_inertia
set_inertia(b, inertia) ==
    [b EXCEPT !.inertia = inertia, !.inverse_inertia = Inverse(inertia)]

\* Body.set_vertices with the default vertices: area, mass, inertia
set_vertices(b) ==
    LET b1 == [b EXCEPT !.area = DefaultArea]
        b2 == set_mass(b1, Mul(b1.density, b1.area))
    IN  set_inertia(b2, Mul(_inertia_scale, VerticesInertia(b2.mass)))

\* the snapshot set_static takes of a part that is not static yet
Snapshot(b) ==
    [present |-> TRUE, restitution |-> b.restitution, friction |-> b.friction,
     mass |-> b.mass, inertia |-> b.inertia, density |-> b.density,
     inverse_mass |-> b.inverse_mass, inverse_inertia |-> b.inverse_inertia]

\* the is_static branch with a snapshot taken at every call
MakeStatic_AlwaysSnapshot(b) ==
    [b EXCEPT !.original = Snapshot(b),
              !.restitution = Zero, !.friction = Rat(1, 1),
              !.mass = Inf, !.inertia = Inf, !.density = Inf,
              !.inverse_mass = Zero, !.inverse_inertia = Zero,
              !.is_static = TRUE]

\* the is_static branch of Body.set_static, for one part
MakeStatic(b) ==
    [b EXCEPT !.original = IF ~b.is_static THEN Snapshot(b) ELSE @,
              !.restitution = Zero, !.friction = Rat(1, 1),
              !.mass = Inf, !.inertia = Inf, !.density = Inf,
              !.inverse_mass = Zero, !.inverse_inertia = Zero,
              !.is_static = TRUE]

\* the other branch: restores from _original when there is one
MakeDynamic(b) ==
    IF b.original.present
    THEN [b EXCEPT !.restitution = b.original.restitution,
                   !.friction = b.original.friction,
                   !.mass = b.original.mass,
                   !.inertia = b.original.inertia,
                   !.density = b.original.density,
                   !.inverse_mass = b.original.inverse_mass,
                   !.inverse_inertia = b.original.inverse_inertia,
                   !.original = NoOriginal,
                   !.is_static = FALSE]
    ELSE [b EXCEPT !.is_static = FALSE]

\* Body.set_static
set_static(b, is_static) == IF is_static THEN MakeStatic(b) ELSE MakeDynamic(b)

\* Body._init_properties: the first set_prop sets vertices, parts, is_static
\* in this order; the values of the second one are read before its setters run
_init_properties(b, options) ==
    LET b1 == [set_vertices(b) EXCEPT !.parts = <<b.id>>, !.parent = b.id]
        b2 == set_static(b1, b1.is_static)
        mass == IF TruthyNumber(options.mass) THEN options.mass ELSE b2.mass
        inertia == IF TruthyNumber(options.inertia) THEN options.inertia
                   ELSE b2.inertia
    IN  set_inertia(set_mass(b2, mass), inertia)

\* Body.create(options); id: Common.next_id()
create(options, id) == _init_properties(BodyDefaults(options, id), options)

\* the loop of Body.set_static over body['parts']: the bodies afterwards
RECURSIVE StaticParts(_, _, _)
StaticParts(bs, parts, is_static) ==
    IF parts = <<>> THEN bs
    ELSE StaticParts([bs EXCEPT ![Head(parts)] = set_static(@, is_static)],
                     Tail(parts), is_static)

\* float addition
Sum(x, y) ==
    IF x.d = 0 \/ y.d = 0
    THEN IF x = NaN \/ y = NaN THEN NaN ELSE Inf
    ELSE Rat(x.n * y.d + y.n * x.d, x.d * y.d)

\* Body._total_properties of a compound: mass, area and inertia summed over
\* the parts after the first one, a part of infinite mass counting as mass 1
RECURSIVE TotalFrom(_, _, _, _)
TotalFrom(bs, parts, k, total) ==
    IF k > Len(parts) THEN total
    ELSE TotalFrom(bs, parts, k + 1,
             [mass |-> Sum(total.mass,
                           IF bs[parts[k]].mass # Inf THEN bs[parts[k]].mass
                           ELSE Rat(1, 1)),
              area |-> Sum(total.area, bs[parts[k]].area),
              inertia |-> Sum(total.inertia, bs[parts[k]].inertia)])

_total_properties(bs, parts) ==
    TotalFrom(bs, parts, IF Len(parts) = 1 THEN 1 ELSE 2,
              [mass |-> Zero, area |-> Zero, inertia |-> Zero])

\* the first loop of Body.set_parts: the part list of the body
RECURSIVE PartList(_, _, _)
PartList(i, parts, k) ==
    IF k > Len(parts) THEN <<>>
    ELSE IF parts[k] # i THEN <<parts[k]>> \o PartList(i, parts, k + 1)
    ELSE PartList(i, parts, k + 1)

\* the end of Body.set_parts for a compound: the hull of parts that all have
\* the default vertices at one place is these vertices again
Compound(b, total) ==
    set_inertia(set_mass([set_vertices(b) EXCEPT !.area = total.area],
                         total.mass),
                total.inertia)

\* Body.set_parts(body, parts): the bodies afterwards
set_parts(bs, i, parts) ==
    LET list == <<i>> \o PartList(i, parts, 1)
        linked == [j \in DOMAIN bs |->
                      IF j = i THEN [bs[j] EXCEPT !.parts = list, !.parent = i]
                      ELSE IF j \in Range(parts)
                      THEN [bs[j] EXCEPT !.parent = i]
                      ELSE bs[j]]
    IN  IF Len(list) = 1 THEN linked
        ELSE [linked EXCEPT
                 ![i] = Compound(@, _total_properties(linked, list))]

\* Body.create({'parts': parts}): _init_properties sets vertices, parts and
\* is_static in this order, then mass and inertia again
create_compound(bs, i, parts) ==
    LET made == [bs EXCEPT ![i] = set_vertices(BodyDefaults(DefaultOptions, i))]
        joined == set_parts(made, i, parts)
        set == StaticParts(joined, joined[i].parts, FALSE)
    IN  [set EXCEPT ![i] = set_inertia(set_mass(@, @.mass), set[i].inertia)]

NoEpisode == [body |-> 0, closed |-> FALSE, snap |-> <<>>]

\* Body.create(options): the new body takes the next free slot
Create(options) ==
    /\ \E i \in RigidBodies :
          /\ ~bodies[i].created
          /\ \A j \in 1..(i - 1) : bodies[j].created
          /\ bodies' = [bodies EXCEPT ![i] = create(options, i)]
    /\ bodyOp' = "create"
    /\ episode' = NoEpisode
    /\ UNCHANGED partsCalls
    /\ UNCHANGED exceptBody

\* Body.set_static(body, is_static)
SetStatic(i, is_static) ==
    /\ bodies[i].created
    /\ bodies' = StaticParts(bodies, bodies[i].parts, is_static)
    /\ bodyOp' = IF is_static THEN "set_static_true" ELSE "set_static_false"
    /\ episode' =
          IF episode.body = i /\ ~episode.closed
          THEN [episode EXCEPT !.closed = ~is_static]
          ELSE IF is_static /\ ~bodies[i].is_static
          THEN [body |-> i, closed |-> FALSE,
                snap |-> [j \in Range(bodies[i].parts) |-> bodies[j]]]
          ELSE NoEpisode
    /\ UNCHANGED partsCalls
    /\ UNCHANGED exceptBody

\* the part lists Body.set_parts is called with
PartLists ==
    {parts \in SeqsUpTo(RigidBodies, 2) :
        /\ parts # <<>>
        /\ \A k \in 1..Len(parts) : bodies[parts[k]].created
        /\ \A k, l \in 1..Len(parts) : parts[k] = parts[l] => k = l}

\* Body.create({'parts': parts}) with parts created before
CreateCompound(parts) ==
    /\ \E i \in RigidBodies :
          /\ ~bodies[i].created
          /\ \A j \in 1..(i - 1) : bodies[j].created
          /\ bodies' = create_compound(bodies, i, parts)
    /\ bodyOp' = "create"
    /\ episode' = NoEpisode
    /\ UNCHANGED partsCalls
    /\ UNCHANGED exceptBody

\* Body.set_parts(body, parts)
SetParts(i, parts) ==
    /\ bodies[i].created
    /\ partsCalls < MaxSetParts
    /\ bodies' = set_parts(bodies, i, parts)
    /\ partsCalls' = partsCalls + 1
    /\ bodyOp' = "set_parts"
    /\ episode' = NoEpisode
    /\ UNCHANGED exceptBody

InitBody ==
    /\ bodies = [i \in RigidBodies |-> NoBody]
    /\ bodyOp = "none"
    /\ partsCalls = 0
    /\ episode = NoEpisode

NextBody ==
    \/ \E options \in BodyOptions : Create(options)
    \/ \E i \in RigidBodies, is_static \in BOOLEAN : SetStatic(i, is_static)
    \/ \E i \in RigidBodies, parts \in PartLists : SetParts(i, parts)

\* the options the parts of compound bodies are created with
PartOptions == {options \in BodyOptions : options.inertia = Zero}

\* compound bodies
NextCompound ==
    \/ \E options \in PartOptions : Create(options)
    \/ \E parts \in PartLists : CreateCompound(parts)
    \/ \E i \in RigidBodies, is_static \in BOOLEAN : SetStatic(i, is_static)


(***************************************************************************)
(* core/sleeping.py and Constraint.post_solve_all: the sleep state of one  *)
(* body; the other body of its pair is an input of after_collisions.       *)
(* Coordinates are relative to the body's current position, so             *)
(* position_prev is minus the displacement of the last step; angles and    *)
(* position_impulse are left out, the body does not rotate.                *)
(***************************************************************************)
Plus(x, y) ==
    LET g == GCD(x.d, y.d)
    IN  Rat(x.n * (y.d \div g) + y.n * (x.d \div g), (x.d \div g) * y.d)

Less(x, y) == x.n * y.d < y.n * x.d

MinOf(x, y) == IF Less(y, x) THEN y ELSE x
MaxOf(x, y) == IF Less(x, y) THEN y ELSE x

\* sleeping.py:7-9
_motion_wake_threshold == Rat(18, 100)
_motion_sleep_threshold == Rat(8, 100)
_min_bias == Rat(9, 10)

\* the velocities Body.set_velocity is called with
Velocities == {0, 1}

NewSleeper(is_static) ==
    [is_static |-> is_static, is_sleeping |-> FALSE, sleep_counter |-> 0,
     sleep_threshold |-> SleepThreshold, motion |-> Zero, speed |-> 0,
     angular_speed |-> 0, position_prev |-> 0,
     constraint_impulse |-> FALSE]

\* set_sleeping that leaves the counter alone when it wakes
set_sleeping_KeepCounter(b, is_sleeping) ==
    IF is_sleeping
    THEN [b EXCEPT !.is_sleeping = TRUE,
                   !.sleep_counter = b.sleep_threshold,
                   !.position_prev = 0,
                   !.speed = 0, !.angular_speed = 0, !.motion = Zero]
    ELSE [b EXCEPT !.is_sleeping = FALSE]

\* Sleeping.set_sleeping(body, is_sleeping)
set_sleeping(b, is_sleeping) ==
    IF is_sleeping
    THEN [b EXCEPT !.is_sleeping = TRUE,
                   !.sleep_counter = b.sleep_threshold,
                   !.position_prev = 0,
                   !.speed = 0, !.angular_speed = 0, !.motion = Zero]
    ELSE [b EXCEPT !.is_sleeping = FALSE, !.sleep_counter = 0]

\* the body's motion after the biased average of Sleeping.update
AveragedMotion(b) ==
    LET motion == Rat(b.speed * b.speed + b.angular_speed * b.angular_speed, 1)
    IN  Plus(Mul(_min_bias, MinOf(b.motion, motion)),
             Mul(Rat(1, 10), MaxOf(b.motion, motion)))

\* "body['motion'] < _motion_sleep_threshold * time_factor", time_factor 1
BelowThreshold(b) == Less(AveragedMotion(b), _motion_sleep_threshold)

\* Sleeping.update restarting the count on a tick at or above the threshold
update_body_Restart(b) ==
    LET b1 == [b EXCEPT !.motion = AveragedMotion(b)]
    IN  IF b1.sleep_threshold > 0 /\ BelowThreshold(b)
        THEN LET b2 == [b1 EXCEPT !.sleep_counter = @ + 1]
             IN  IF b2.sleep_counter >= b2.sleep_threshold
                 THEN set_sleeping(b2, TRUE) ELSE b2
        ELSE [b1 EXCEPT !.sleep_counter = 0]

\* the body of the loop of Sleeping.update, delta being the base delta
update_body(b) ==
    LET b1 == [b EXCEPT !.motion = AveragedMotion(b)]
    IN  IF b1.sleep_threshold > 0 /\ BelowThreshold(b)
        THEN LET b2 == [b1 EXCEPT !.sleep_counter = @ + 1]
             IN  IF b2.sleep_counter >= b2.sleep_threshold
                 THEN set_sleeping(b2, TRUE) ELSE b2
        ELSE IF b1.sleep_counter > 0
             THEN [b1 EXCEPT !.sleep_counter = @ - 1]
             ELSE b1

\* the bodies the other body of a pair is drawn from
Partners ==
    [is_static : BOOLEAN, is_sleeping : BOOLEAN, motion : {Zero, Rat(1, 1)}]

\* the body Sleeping.after_collisions wakes for an active pair of body_a and
\* body_b: "a", "b" or "none"
Woken(body_a, body_b) ==
    IF (body_a.is_static \/ body_a.is_sleeping)
         /\ (body_b.is_static \/ body_b.is_sleeping)
    THEN "none"
    ELSE IF body_a.is_sleeping \/ body_b.is_sleeping
    THEN LET a_sleeps == body_a.is_sleeping /\ ~body_a.is_static
             sleeping_body == IF a_sleeps THEN body_a ELSE body_b
             awake_body == IF a_sleeps THEN body_b ELSE body_a
         IN  IF ~(awake_body.is_static \/ awake_body.is_sleeping)
                  /\ Less(Mul(sleeping_body.motion, _motion_wake_threshold),
                          awake_body.motion)
             THEN IF a_sleeps THEN "a" ELSE "b"
             ELSE "none"
    ELSE "none"

\* the wake of Constraint.post_solve_all for one body
post_solve(b) ==
    IF b.is_static \/ ~b.constraint_impulse THEN b
    ELSE [b EXCEPT !.is_sleeping = FALSE]

\* the last n elements of a sequence
LastN(s, n) == IF Len(s) <= n THEN s ELSE SubSeq(s, Len(s) - n + 1, Len(s))

\* Body.create(options) of the body whose sleep state is followed
CreateSleeper(is_static) ==
    /\ sleepOp = "none"
    /\ sleeper' = NewSleeper(is_static)
    /\ before' = NewSleeper(is_static)
    /\ sleepOp' = "create"
    /\ UNCHANGED <<ticks, recent>>
    /\ UNCHANGED exceptSleeping

\* Sleeping.update(bodies, delta) with delta the base delta
SleepingUpdate ==
    /\ sleepOp # "none"
    /\ ticks < MaxTicks
    /\ sleeper' = update_body(sleeper)
    /\ ticks' = ticks + 1
    /\ recent' = LastN(Append(recent, BelowThreshold(sleeper)), SleepThreshold)
    /\ before' = sleeper
    /\ sleepOp' = "update"
    /\ UNCHANGED exceptSleeping

\* Sleeping.set_sleeping(body, is_sleeping)
SetSleeping(is_sleeping) ==
    /\ sleepOp # "none"
    /\ sleeper' = set_sleeping(sleeper, is_sleeping)
    /\ before' = sleeper
    /\ sleepOp' = IF is_sleeping THEN "set_sleeping_true"
                  ELSE "set_sleeping_false"
    /\ UNCHANGED <<ticks, recent>>
    /\ UNCHANGED exceptSleeping

\* Sleeping.after_collisions(pairs) with one started, active pair in which the
\* body is body_a (side "a") or body_b
AfterCollisions(side, partner) ==
    /\ sleepOp # "none"
    /\ LET w == IF side = "a" THEN Woken(sleeper, partner)
                ELSE Woken(partner, sleeper)
       IN  sleeper' = IF w = side THEN set_sleeping(sleeper, FALSE)
                      ELSE sleeper
    /\ before' = sleeper
    /\ sleepOp' = "after_collisions"
    /\ UNCHANGED <<ticks, recent>>
    /\ UNCHANGED exceptSleeping

\* Constraint.solve leaves an impulse on a body of the constraint
ConstraintSolve ==
    /\ sleepOp # "none"
    /\ ~sleeper.is_static
    /\ ~sleeper.constraint_impulse
    /\ sleeper' = [sleeper EXCEPT !.constraint_impulse = TRUE]
    /\ before' = sleeper
    /\ sleepOp' = "solve"
    /\ UNCHANGED <<ticks, recent>>
    /\ UNCHANGED exceptSleeping

\* Constraint.post_solve_all(bodies): the dampened impulse stays non-zero
PostSolveAll ==
    /\ sleepOp # "none"
    /\ sleeper' = post_solve(sleeper)
    /\ before' = sleeper
    /\ sleepOp' = "post_solve_all"
    /\ UNCHANGED <<ticks, recent>>
    /\ UNCHANGED exceptSleeping

\* Body.set_velocity(body, velocity) on a body the engine moves
SetVelocity(v) ==
    /\ sleepOp # "none"
    /\ ~sleeper.is_static
    /\ ~sleeper.is_sleeping
    /\ sleeper.speed # v
    /\ sleeper' = [sleeper EXCEPT !.position_prev = 0 - v, !.speed = v]
    /\ before' = sleeper
    /\ sleepOp' = "set_velocity"
    /\ UNCHANGED <<ticks, recent>>
    /\ UNCHANGED exceptSleeping

\* no body yet
InitSleeping ==
    /\ sleeper = NewSleeper(FALSE)
    /\ ticks = 0
    /\ recent = <<>>
    /\ before = sleeper
    /\ sleepOp = "none"

NextSleeping ==
    \/ \E is_static \in BOOLEAN : CreateSleeper(is_static)
    \/ SleepingUpdate
    \/ \E is_sleeping \in BOOLEAN : SetSleeping(is_sleeping)
    \/ \E side \in {"a", "b"}, partner \in Partners :
          AfterCollisions(side, partner)
    \/ ConstraintSolve
    \/ PostSolveAll
    \/ \E v \in Velocities : SetVelocity(v)

(***************************************************************************)
(* collision/collision.py: the SAT narrowphase on two axis-aligned         *)
(* rectangles with integer corners, bodies 1 and 2 with ids 1 and 2.       *)
(* Vertices are referred to by body and index: a record holds references   *)
(* to the vertex dicts of the bodies.                                      *)
(***************************************************************************)
Vec(x, y) == [x |-> x, y |-> y]

Dot(u, v) == u.x * v.x + u.y * v.y

Grid == (0 - GridRadius)..GridRadius

\* half width and half height of the rectangles
RectShapes == {Vec(1, 1), Vec(2, 1), Vec(1, 2)}

\* Bodies.rectangle: the vertices of a body, clockwise, index 0 first
RectVertices(b) ==
    <<Vec(b.position.x - b.half.x, b.position.y - b.half.y),
      Vec(b.position.x + b.half.x, b.position.y - b.half.y),
      Vec(b.position.x + b.half.x, b.position.y + b.half.y),
      Vec(b.position.x - b.half.x, b.position.y + b.half.y)>>

\* Axes.from_vertices of a rectangle: the edge normals keyed by gradient; the
\* normal (-1, 0) of the last edge replaces (1, 0) under the key 0
RectAxes == <<Vec(0, 0 - 1), Vec(0 - 1, 0), Vec(0, 1)>>

\* the inner loops of _overlap_axes: smallest and largest projection
RECURSIVE ProjectFrom(_, _, _, _, _)
ProjectFrom(vertices, axis, j, lo, hi) ==
    IF j > Len(vertices) THEN [min |-> lo, max |-> hi]
    ELSE LET dot == Dot(vertices[j], axis)
         IN  IF dot > hi THEN ProjectFrom(vertices, axis, j + 1, lo, dot)
             ELSE IF dot < lo THEN ProjectFrom(vertices, axis, j + 1, dot, hi)
             ELSE ProjectFrom(vertices, axis, j + 1, lo, hi)

Project(vertices, axis) ==
    ProjectFrom(vertices, axis, 2, Dot(vertices[1], axis),
                Dot(vertices[1], axis))

\* "overlap = overlap_ab if overlap_ab < overlap_ba else overlap_ba"
OverlapOf(a, b) ==
    IF a.max - b.min < b.max - a.min THEN a.max - b.min ELSE b.max - a.min

AxisOverlap(vertices_a, vertices_b, axis) ==
    OverlapOf(Project(vertices_a, axis), Project(vertices_b, axis))

\* the outer loop of _overlap_axes from axis i on; overlap_min is infinite
\* before the first axis, so the first axis always sets it
RECURSIVE OverlapFrom(_, _, _, _, _, _)
RECURSIVE OverlapStep(_, _, _, _, _, _, _)
OverlapStep(vertices_a, vertices_b, axes, i, overlap_min, number, overlap) ==
    IF i = 1 \/ overlap < overlap_min
    THEN IF overlap <= 0
         THEN [overlap |-> overlap, axis |-> axes[i]]
         ELSE OverlapFrom(vertices_a, vertices_b, axes, i + 1, overlap, i)
    ELSE OverlapFrom(vertices_a, vertices_b, axes, i + 1, overlap_min, number)

OverlapFrom(vertices_a, vertices_b, axes, i, overlap_min, number) ==
    IF i > Len(axes) THEN [overlap |-> overlap_min, axis |-> axes[number]]
    ELSE OverlapStep(vertices_a, vertices_b, axes, i, overlap_min, number,
                     AxisOverlap(vertices_a, vertices_b, axes[i]))

\* Collision._overlap_axes
_overlap_axes(vertices_a, vertices_b, axes) ==
    OverlapFrom(vertices_a, vertices_b, axes, 1, 0, 1)

\* Vertices.contains
contains(vertices, point) ==
    \A k \in 1..Len(vertices) :
        LET vertex == vertices[IF k = 1 THEN Len(vertices) ELSE k - 1]
            next_vertex == vertices[k]
        IN  ~((point.x - vertex.x) * (next_vertex.y - vertex.y)
                + (point.y - vertex.y) * (vertex.x - next_vertex.x) > 0)

\* a reference to no vertex (None)
NoVertex == [body |-> 0, index |-> 0]

VertexRef(b, index) == [body |-> b.id, index |-> index]

\* "normal_x * (body_a_position_x - vertex['x']) + normal_y * (...)" for the
\* vertex of index k
Distance(vertices, position, n, k) ==
    Dot(n, Vec(position.x - vertices[k + 1].x, position.y - vertices[k + 1].y))

\* the first loop of _find_supports: the index of the deepest vertex
RECURSIVE NearestFrom(_, _, _, _, _)
NearestFrom(vertices, position, n, j, best) ==
    IF j >= Len(vertices) THEN best
    ELSE IF Distance(vertices, position, n, j)
              < Distance(vertices, position, n, best)
         THEN NearestFrom(vertices, position, n, j + 1, j)
         ELSE NearestFrom(vertices, position, n, j + 1, best)

\* the end of _find_supports: vertex_a and the deeper one of its neighbours
PickSupports(vertices, position, n, body_b, vertex_a) ==
    IF Distance(vertices, position, n, (vertex_a + 1) % Len(vertices))
         < Distance(vertices, position, n,
                    (Len(vertices) + vertex_a - 1) % Len(vertices))
    THEN <<VertexRef(body_b, vertex_a),
           VertexRef(body_b, (vertex_a + 1) % Len(vertices))>>
    ELSE <<VertexRef(body_b, vertex_a),
           VertexRef(body_b, (Len(vertices) + vertex_a - 1) % Len(vertices))>>

FindSupportsIn(vertices, position, n, body_b) ==
    PickSupports(vertices, position, n, body_b,
                 NearestFrom(vertices, position, n, 1, 0))

\* Collision._find_supports: the two supporting vertices of body_b, as
\* references
_find_supports(body_a, body_b, normal, direction) ==
    FindSupportsIn(RectVertices(body_b), body_a.position,
                   Vec(normal.x * direction, normal.y * direction), body_b)

\* the place of a referred vertex, the bodies being where bs says
VertexAt(bs, ref) == RectVertices(bs[ref.body])[ref.index + 1]

\* no record: the pair of the bodies is not in the table
NoRecord ==
    [collided |-> FALSE, body_a |-> 0, body_b |-> 0, depth |-> 0,
     normal |-> Vec(0, 0), tangent |-> Vec(0, 0), penetration |-> Vec(0, 0),
     supports |-> <<NoVertex, NoVertex>>, support_count |-> 0]

\* Collision.create and the lines that follow it in collides
NewRecord(first, second) ==
    [NoRecord EXCEPT !.collided = TRUE,
                     !.body_a = IF first.id < second.id THEN first.id
                                ELSE second.id,
                     !.body_b = IF first.id < second.id THEN second.id
                                ELSE first.id]

\* Vertices.contains(body['vertices'], vertex) for a referred vertex
Inside(bs, body, ref) == contains(RectVertices(body), VertexAt(bs, ref))

\* the supports of body_b that lie inside body_a
FromB(bs, body_a, supports_b) ==
    IF Inside(bs, body_a, supports_b[1])
    THEN IF Inside(bs, body_a, supports_b[2])
         THEN <<supports_b[1], supports_b[2]>> ELSE <<supports_b[1]>>
    ELSE IF Inside(bs, body_a, supports_b[2])
         THEN <<supports_b[2]>> ELSE <<>>

\* "if support_count < 2": found, then the supports of body_a inside body_b
FromA(bs, body_b, found, supports_a) ==
    IF Inside(bs, body_b, supports_a[1])
    THEN IF Len(found) + 1 < 2 /\ Inside(bs, body_b, supports_a[2])
         THEN <<supports_a[1], supports_a[2]>>
         ELSE Append(found, supports_a[1])
    ELSE IF Inside(bs, body_b, supports_a[2])
         THEN Append(found, supports_a[2]) ELSE found

\* as WithFallback, without the fallback
WithFallback_Without(found, first) == found

\* "if support_count == 0: supports[0] = supports_b[0]"
WithFallback(found, first) == IF Len(found) = 0 THEN <<first>> ELSE found

\* the entries of the record's supports list beyond support_count stay
Written(found, old) ==
    [supports |-> [k \in 1..2 |-> IF k <= Len(found) THEN found[k]
                                  ELSE old[k]],
     support_count |-> Len(found)]

\* _find_supports returns the module's one _supports list, so once it has been
\* called for body_a, supports_b is the same list as supports_a
AfterFromB(bs, body_a, body_b, normal, old, found) ==
    IF Len(found) < 2
    THEN Written(WithFallback(
                     FromA(bs, body_b, found,
                           _find_supports(body_b, body_a, normal, 0 - 1)),
                     _find_supports(body_b, body_a, normal, 0 - 1)[1]),
                 old)
    ELSE Written(found, old)

\* the supports written into the record
FillSupports(bs, body_a, body_b, normal, old) ==
    AfterFromB(bs, body_a, body_b, normal, old,
               FromB(bs, body_a, _find_supports(body_a, body_b, normal, 1)))

\* the axis of least overlap, reversed when it points from body_b to body_a
FacingNormal_TowardB(min_axis, body_a, body_b) ==
    LET delta == Vec(body_b.position.x - body_a.position.x,
                     body_b.position.y - body_a.position.y)
    IN  IF Dot(min_axis, delta) < 0
        THEN Vec(0 - min_axis.x, 0 - min_axis.y)
        ELSE min_axis

\* the normal of collides: the axis of least overlap, reversed when it has a
\* non-negative product with body_b.position - body_a.position
FacingNormal(min_axis, body_a, body_b) ==
    LET delta == Vec(body_b.position.x - body_a.position.x,
                     body_b.position.y - body_a.position.y)
    IN  IF Dot(min_axis, delta) >= 0
        THEN Vec(0 - min_axis.x, 0 - min_axis.y)
        ELSE min_axis

\* the end of collides: the fields written into the record
WriteRecord(collision, depth, normal, sup) ==
    [collision EXCEPT !.normal = normal,
                      !.tangent = Vec(0 - normal.y, normal.x),
                      !.penetration = Vec(normal.x * depth, normal.y * depth),
                      !.depth = depth,
                      !.supports = sup.supports,
                      !.support_count = sup.support_count]

WithNormal(bs, collision, depth, normal) ==
    WriteRecord(collision, depth, normal,
                FillSupports(bs, bs[collision.body_a], bs[collision.body_b],
                             normal, collision.supports))

\* body_a and body_b are those of the record from here on
Resolve(bs, collision, min_overlap) ==
    WithNormal(bs, collision, min_overlap.overlap,
               FacingNormal(min_overlap.axis, bs[collision.body_a],
                            bs[collision.body_b]))

Narrowphase(bs, first, second, cached, _overlap_ab, _overlap_ba) ==
    IF _overlap_ab.overlap <= 0 THEN NoRecord
    ELSE IF _overlap_ba.overlap <= 0 THEN NoRecord
    ELSE Resolve(bs,
                 IF cached.collided THEN cached ELSE NewRecord(first, second),
                 IF _overlap_ab.overlap < _overlap_ba.overlap
                 THEN _overlap_ab ELSE _overlap_ba)

\* Collision.collides(first, second, pairs): the record it returns, NoRecord
\* for None; cached is the record of the pair in pairs, NoRecord if none
collides(bs, first, second, cached) ==
    Narrowphase(bs, first, second, cached,
                _overlap_axes(RectVertices(first), RectVertices(second),
                              RectAxes),
                _overlap_axes(RectVertices(second), RectVertices(first),
                              RectAxes))

\* Collision.collides(first, second, pairs); with_pairs: the pairs argument is
\* given and holds the record of an earlier collision of the two bodies
Collides(first, second, with_pairs) ==
    /\ collOp # "none"
    /\ first # second
    /\ \E c \in {collides(rects, rects[first], rects[second],
                          IF with_pairs THEN record ELSE NoRecord)} :
          /\ returned' = c
          /\ record' = IF c.collided THEN c ELSE record
    /\ collOp' = "collides"
    /\ UNCHANGED rects
    /\ UNCHANGED exceptCollision

\* Body.set_position(body, position) on body 2: the narrowphase depends on
\* the place of one body relative to the other only, body 1 stays at (0, 0)
SetPosition(position) ==
    /\ collOp # "none"
    /\ rects[2].position # position
    /\ rects' = [rects EXCEPT ![2].position = position]
    /\ collOp' = "set_position"
    /\ UNCHANGED <<record, returned>>
    /\ UNCHANGED exceptCollision

\* Bodies.rectangle(0, 0, width, height) for body 1 and for body 2
CreateRects(h1, h2) ==
    /\ collOp = "none"
    /\ rects' = <<[id |-> 1, position |-> Vec(0, 0), half |-> h1],
                  [id |-> 2, position |-> Vec(0, 0), half |-> h2]>>
    /\ collOp' = "create"
    /\ UNCHANGED <<record, returned>>
    /\ UNCHANGED exceptCollision

\* no bodies yet
InitCollision ==
    /\ rects = <<>>
    /\ record = NoRecord
    /\ returned = NoRecord
    /\ collOp = "none"

NextCollision ==
    \/ \E h1 \in RectShapes, h2 \in RectShapes : CreateRects(h1, h2)
    \/ \E first \in {1, 2}, second \in {1, 2}, with_pairs \in BOOLEAN :
          Collides(first, second, with_pairs)
    \/ \E x \in Grid, y \in Grid : SetPosition(Vec(x, y))


(***************************************************************************)
(* collision/pairs.py: Pairs.id_from_bodies as a function of the two ids    *)
(***************************************************************************)
\* the ids Common.next_id has handed out: 1, 2, ...
MaxBodyId == 12

AllBodyIds == 1..MaxBodyId

\* Pairs.id_from_bodies(body_a, body_b) is called; the latest call is kept
\* with its arguments and its result
IdFromBodies(body_a, body_b) ==
    /\ idCalls' = <<[a |-> body_a, b |-> body_b,
                    id |-> id_from_bodies(body_a, body_b)]>>
    /\ UNCHANGED exceptIds

InitIds == idCalls = <<>>

NextIds == \E body_a, body_b \in AllBodyIds : IdFromBodies(body_a, body_b)

(***************************************************************************)
(* body/body.py: Body.set_velocity and Body.get_velocity.  A float is a     *)
(* signed fraction [n, d] whose magnitude has at most Precision             *)
(* significant bits; every operation rounds its exact result to the nearest *)
(* float, ties to even.  The y components go through the same operations as *)
(* the x components, which are the ones followed here.                      *)
(***************************************************************************)
\* the number of significant bits of a float
Precision == 3

RECURSIVE Pow2(_)
Pow2(k) == IF k = 0 THEN 1 ELSE 2 * Pow2(k - 1)

Abs(x) == IF x < 0 THEN 0 - x ELSE x

\* the integer nearest to n / d, ties to even, for n >= 0 and d > 0
NearestInt(n, d) ==
    IF 2 * (n % d) < d THEN n \div d
    ELSE IF 2 * (n % d) > d THEN (n \div d) + 1
    ELSE IF (n \div d) % 2 = 0 THEN n \div d
    ELSE (n \div d) + 1

\* the float nearest to n / d * up / down, for n > 0: up and down are powers
\* of two that bring the mantissa into Precision bits
RECURSIVE RoundMagnitude(_, _, _, _)
RoundMagnitude(n, d, up, down) ==
    IF n >= d * Pow2(Precision) THEN RoundMagnitude(n, 2 * d, 2 * up, down)
    ELSE IF n < d * Pow2(Precision - 1)
    THEN RoundMagnitude(2 * n, d, up, 2 * down)
    ELSE [n |-> NearestInt(n, d) * up, d |-> down]

\* a fraction in lowest terms, its sign carried by the numerator
Signed(n, d) ==
    [n |-> n \div GCD(Abs(n), d), d |-> d \div GCD(Abs(n), d)]

Lowest(sign, x) == Signed(sign * x.n, x.d)

\* the float an operation returns for the exact result n / d, d > 0
Float(n, d) ==
    IF n = 0 THEN [n |-> 0, d |-> 1]
    ELSE Lowest(IF n < 0 THEN 0 - 1 ELSE 1, RoundMagnitude(Abs(n), d, 1, 1))

\* the operation with the exact result n / d rounds
Rounds(n, d) == Float(n, d).n * d # n * Float(n, d).d

\* float subtraction, multiplication and division (by a positive float)
FSub(x, y) == Float(x.n * y.d - y.n * x.d, x.d * y.d)
FMul(x, y) == Float(x.n * y.n, x.d * y.d)
FDiv(x, y) == Float(x.n * y.d, x.d * y.n)
SubRounds(x, y) == Rounds(x.n * y.d - y.n * x.d, x.d * y.d)
MulRounds(x, y) == Rounds(x.n * y.n, x.d * y.d)
DivRounds(x, y) == Rounds(x.n * y.d, x.d * y.n)

\* _base_delta = 1000 / 60
_base_delta == Float(1000, 60)

\* the positions, step lengths and velocities of the calls
Positions == {Float(0, 1), Float(1, 1), Float(6, 1), Float(0 - 5, 1)}
DeltaTimes == {_base_delta, Float(8, 1), Float(10, 1)}
VelocityInputs ==
    {Float(0, 1), Float(1, 1), Float(0 - 1, 1), Float(3, 1), Float(1, 4),
     Float(3, 8)}

NoMover ==
    [position |-> Float(0, 1), position_prev |-> Float(0, 1),
     velocity |-> Float(0, 1), speed |-> Float(0, 1),
     delta_time |-> _base_delta]

\* get_velocity with the time scale of set_velocity
get_velocity_ScaleOfSetter(body) ==
    FMul(FSub(body.position, body.position_prev),
         FDiv(body.delta_time, _base_delta))

\* Body.get_velocity(body)
get_velocity(body) ==
    FMul(FSub(body.position, body.position_prev),
         FDiv(_base_delta, body.delta_time))

\* Body.set_velocity with the position it wrote given: velocity and speed
WithVelocity(body, position_prev, time_scale) ==
    [body EXCEPT
        !.position_prev = position_prev,
        !.velocity = FDiv(FSub(body.position, position_prev), time_scale),
        !.speed = Float(Abs(FDiv(FSub(body.position, position_prev),
                                 time_scale).n),
                        FDiv(FSub(body.position, position_prev),
                             time_scale).d)]

\* Body.set_velocity(body, velocity)
set_velocity(body, velocity) ==
    WithVelocity(body,
                 FSub(body.position,
                      FMul(velocity, FDiv(body.delta_time, _base_delta))),
                 FDiv(body.delta_time, _base_delta))

\* an operation of set_velocity that get_velocity depends on rounds
SetterRounds(body, velocity) ==
    \/ DivRounds(body.delta_time, _base_delta)
    \/ MulRounds(velocity, FDiv(body.delta_time, _base_delta))
    \/ SubRounds(body.position,
                 FMul(velocity, FDiv(body.delta_time, _base_delta)))

\* an operation of get_velocity rounds
GetterRounds(body) ==
    \/ DivRounds(_base_delta, body.delta_time)
    \/ SubRounds(body.position, body.position_prev)
    \/ MulRounds(FSub(body.position, body.position_prev),
                 FDiv(_base_delta, body.delta_time))

\* Body.create({'position': position}) and the step length the engine gave
\* the body in its latest update
CreateMover(position, delta_time) ==
    /\ velOp = "none"
    /\ mover' = [NoMover EXCEPT !.position = position,
                                !.position_prev = position,
                                !.delta_time = delta_time]
    /\ velOp' = "create"
    /\ UNCHANGED <<asked, got, rounded>>
    /\ UNCHANGED exceptVelocity

\* Body.set_velocity(body, velocity)
SetVelocityOf(velocity) ==
    /\ velOp # "none"
    /\ mover' = set_velocity(mover, velocity)
    /\ asked' = [velocity |-> velocity, position |-> mover.position]
    /\ rounded' = SetterRounds(mover, velocity)
    /\ velOp' = "set_velocity"
    /\ UNCHANGED got
    /\ UNCHANGED exceptVelocity

\* Body.get_velocity(body) right after Body.set_velocity
GetVelocity ==
    /\ velOp = "set_velocity"
    /\ got' = get_velocity(mover)
    /\ rounded' = (rounded \/ GetterRounds(mover))
    /\ velOp' = "get_velocity"
    /\ UNCHANGED <<mover, asked>>
    /\ UNCHANGED exceptVelocity

InitVelocity ==
    /\ mover = NoMover
    /\ asked = [velocity |-> Float(0, 1), position |-> Float(0, 1)]
    /\ got = Float(0, 1)
    /\ rounded = FALSE
    /\ velOp = "none"

NextVelocity ==
    \/ \E position \in Positions, delta_time \in DeltaTimes :
          CreateMover(position, delta_time)
    \/ \E velocity \in VelocityInputs : SetVelocityOf(velocity)
    \/ GetVelocity

(***************************************************************************)
(* collision/detector.py: Detector.collisions on two bodies of one part     *)
(* each, whose bounds have the same height and the same place on the y axis *)
(***************************************************************************)
\* the width of the bounds of a body
Extent == 2

\* where the bounds of the second body begin; those of the first begin at 0
Offsets == {0, 1, Extent, Extent + 1}

RECURSIVE BitAnd(_, _)
\* a & b for non-negative integers
BitAnd(a, b) ==
    IF a = 0 \/ b = 0 THEN 0
    ELSE 2 * BitAnd(a \div 2, b \div 2) + (IF a % 2 = 1 /\ b % 2 = 1 THEN 1 ELSE 0)

\* the collision filters of the bodies
Filters == [group : {0 - 1, 0, 1, 2}, category : {1, 2}, mask : {0, 1, 3}]

\* body['collision_filter'] of Body.create without options: every bit of the
\* mask is set
DefaultFilter == [group |-> 0, category |-> 1, mask |-> 3]

DetectorBody(id, min_x, is_static, is_sleeping, filter) ==
    [id |-> id, min_x |-> min_x, max_x |-> min_x + Extent,
     is_static |-> is_static, is_sleeping |-> is_sleeping,
     collision_filter |-> filter]

\* Detector.can_collide without the group rule
can_collide_MaskOnly(filter_a, filter_b) ==
    /\ BitAnd(filter_a.category, filter_b.mask) # 0
    /\ BitAnd(filter_b.category, filter_a.mask) # 0

\* Detector.can_collide(filter_a, filter_b)
can_collide(filter_a, filter_b) ==
    IF filter_a.group = filter_b.group /\ filter_a.group # 0
    THEN filter_a.group > 0
    ELSE /\ BitAnd(filter_a.category, filter_b.mask) # 0
         /\ BitAnd(filter_b.category, filter_a.mask) # 0

\* detector.py:43: bodies.sort(key = bounds.min.x), a stable sort
SortedBodies(bs) == IF bs[2].min_x < bs[1].min_x THEN <<bs[2], bs[1]>> ELSE bs

\* detector.py:51 and 68
Idle(body) == body.is_static \/ body.is_sleeping

\* as Rejected, but a sleeping body is tested as a moving one
Rejected_StaticOnly(body_a, body_b) ==
    \/ body_b.min_x > body_a.max_x
    \/ (body_a.is_static /\ body_b.is_static)
    \/ ~can_collide(body_a.collision_filter, body_b.collision_filter)

\* detector.py:59-73: the sweep, the test of static / sleeping bodies and the
\* collision filter; the prune on the y axis never rejects these bodies
Rejected(body_a, body_b) ==
    \/ body_b.min_x > body_a.max_x
    \/ (Idle(body_a) /\ Idle(body_b))
    \/ ~can_collide(body_a.collision_filter, body_b.collision_filter)

\* Collision.collides of two bodies of this shape: they collide when their
\* bounds overlap by more than a point, on two supports
Narrow(body_a, body_b) ==
    IF body_b.min_x < body_a.max_x
    THEN <<[parent_a |-> body_a.id, parent_b |-> body_b.id, support_count |-> 2]>>
    ELSE <<>>

\* the inner loop of Detector.collisions for the sorted bodies
Detect(body_a, body_b) ==
    IF Rejected(body_a, body_b) THEN <<>> ELSE Narrow(body_a, body_b)

\* Detector.collisions(detector)
DetectorCollisions(bs) == Detect(SortedBodies(bs)[1], SortedBodies(bs)[2])

\* two bodies are created and added to the world
CreateWorld(first, second) ==
    /\ detOp = "none"
    /\ world' = <<first, second>>
    /\ detOp' = "create"
    /\ UNCHANGED exceptDetector

\* Engine.update: Detector.collisions, then Pairs.update on what it found
Step(dt) ==
    /\ detOp # "none"
    /\ UpdatePairs(DetectorCollisions(world), dt)
    /\ detOp' = "update"
    /\ UNCHANGED world
    /\ UNCHANGED exceptPairsAndDetector

\* Body.set_position on the second body
MoveTo(min_x) ==
    /\ detOp # "none"
    /\ world[2].min_x # min_x
    /\ world' = [world EXCEPT ![2] = [@ EXCEPT !.min_x = min_x,
                                              !.max_x = min_x + Extent]]
    /\ detOp' = "move"
    /\ UNCHANGED exceptDetector

\* Sleeping.set(body, is_sleeping)
SetSleepingOf(i, is_sleeping) ==
    /\ detOp # "none"
    /\ world[i].is_sleeping # is_sleeping
    /\ world' = [world EXCEPT ![i] = [@ EXCEPT !.is_sleeping = is_sleeping]]
    /\ detOp' = "set_sleeping"
    /\ UNCHANGED exceptDetector

\* Body.set_static(body, is_static)
SetStaticOf(i, is_static) ==
    /\ detOp # "none"
    /\ world[i].is_static # is_static
    /\ world' = [world EXCEPT ![i] = [@ EXCEPT !.is_static = is_static]]
    /\ detOp' = "set_static"
    /\ UNCHANGED exceptDetector

InitDetector ==
    /\ world = <<>>
    /\ detOp = "none"

\* bodies that differ in their collision filters
FilteredWorlds ==
    {<<DetectorBody(1, 0, FALSE, FALSE, f), DetectorBody(2, x, FALSE, FALSE, g)>> :
        f \in Filters, g \in Filters, x \in {1}}

\* bodies with the default filter that are static or not
FlaggedWorlds ==
    {<<DetectorBody(1, 0, s, FALSE, DefaultFilter),
       DetectorBody(2, 1, t, FALSE, DefaultFilter)>> : s \in BOOLEAN, t \in BOOLEAN}

NextFilter ==
    \/ \E w \in FilteredWorlds : CreateWorld(w[1], w[2])
    \/ \E dt \in Deltas : Step(dt)
    \/ \E min_x \in Offsets : MoveTo(min_x)

NextDetector ==
    \/ \E w \in FlaggedWorlds : CreateWorld(w[1], w[2])
    \/ \E dt \in Deltas : Step(dt)
    \/ \E min_x \in Offsets : MoveTo(min_x)
    \/ \E i \in {1, 2}, is_sleeping \in BOOLEAN : SetSleepingOf(i, is_sleeping)
    \/ \E i \in {1, 2}, is_static \in BOOLEAN : SetStaticOf(i, is_static)

(***************************************************************************)
(* core/engine.py: Engine.update on two rectangles, the narrow phase of     *)
(* Detector.collisions feeding Pairs.update                                 *)
(***************************************************************************)
\* body['bounds'] of a rectangle at rest
RectMinX(b) == b.position.x - b.half.x

RectMaxX(b) == b.position.x + b.half.x

RectMinY(b) == b.position.y - b.half.y

RectMaxY(b) == b.position.y + b.half.y

\* detector.py:43: the bodies sorted by bounds.min.x, the sort is stable
SortedRects(bs) ==
    IF RectMinX(bs[2]) < RectMinX(bs[1]) THEN <<bs[2], bs[1]>> ELSE bs

\* detector.py:59-65: the sweep on the x axis and the prune on the y axis
Swept(body_a, body_b) ==
    \/ RectMinX(body_b) > RectMaxX(body_a)
    \/ RectMaxY(body_a) < RectMinY(body_b)
    \/ RectMinY(body_a) > RectMaxY(body_b)

\* detector.py:59-86 for two dynamic, awake bodies with the default filter
RectCollision(bs, body_a, body_b, cached) ==
    IF Swept(body_a, body_b) THEN NoRecord
    ELSE collides(bs, body_a, body_b, cached)

\* Detector.collisions on the two rectangles: the record found, NoRecord when
\* the list is empty
DetectRects(bs, cached) ==
    RectCollision(bs, SortedRects(bs)[1], SortedRects(bs)[2], cached)

\* the list Detector.collisions returns, as Pairs.update reads it
AsCollisions(c) ==
    IF c.collided
    THEN <<[parent_a |-> c.body_a, parent_b |-> c.body_b,
            support_count |-> c.support_count]>>
    ELSE <<>>

\* Engine.update: Detector.collisions, where Collision.collides reuses the
\* record of the pair in the table, then Pairs.update on what it found
StepRects(dt) ==
    /\ collOp # "none"
    /\ \E c \in {DetectRects(rects, IF id_from_bodies(1, 2) \in pairs_table
                                    THEN record ELSE NoRecord)} :
          /\ returned' = c
          /\ record' = IF c.collided THEN c ELSE record
          /\ UpdatePairs(AsCollisions(c), dt)
    /\ collOp' = "update"
    /\ UNCHANGED rects
    /\ UNCHANGED exceptPairsAndCollision

NextContacts ==
    \/ \E h1 \in RectShapes, h2 \in RectShapes : CreateRects(h1, h2)
    \/ \E dt \in Deltas : StepRects(dt)
    \/ \E x \in Grid, y \in Grid : SetPosition(Vec(x, y))

(***************************************************************************)
(* constraint/constraint.py: Constraint.solve of one constraint.  Lengths   *)
(* and angles are counted in twelfths; the two points of the constraint lie *)
(* on a horizontal line, so that the length of delta is |delta.x|; inverse  *)
(* masses and inverse inertias are 0 or 1.                                  *)
(***************************************************************************)
NoImpulse == [x |-> 0, y |-> 0, angle |-> 0]

\* an endpoint without a body
NoEnd ==
    [present |-> FALSE, is_static |-> FALSE, inverse_mass |-> 0,
     inverse_inertia |-> 0, position |-> Vec(0, 0),
     position_prev |-> Vec(0, 0), angle |-> 0, constraint_impulse |-> NoImpulse]

\* a body at the origin, as an endpoint
EndBody(is_static, inverse_mass, inverse_inertia) ==
    [NoEnd EXCEPT !.present = TRUE, !.is_static = is_static,
                  !.inverse_mass = inverse_mass,
                  !.inverse_inertia = inverse_inertia]

\* the endpoints: none, a static body (Body.set_static gives it infinite mass
\* and inertia), or a body whose mass and inertia are 1 or infinite
ConstraintEnds ==
    {NoEnd, EndBody(TRUE, 0, 0)}
        \cup {EndBody(FALSE, m, i) : m \in {0, 1}, i \in {0, 1}}

\* where the second endpoint is, the height of the two points above the
\* centres, and the rest length
Places == {24, 48}

Heights == {0, 12}

Lengths == {12, 24, 48}

At(end, x) ==
    IF end.present
    THEN [end EXCEPT !.position = Vec(x, 0), !.position_prev = Vec(x, 0)]
    ELSE end

\* constraint.py:139-142
PointWorld(end, point) ==
    IF end.present
    THEN Vec(end.position.x + point.x, end.position.y + point.y)
    ELSE point

\* constraint.py:147
Delta(es, c) ==
    Vec(PointWorld(es[1], c.point_a).x - PointWorld(es[2], c.point_b).x,
        PointWorld(es[1], c.point_a).y - PointWorld(es[2], c.point_b).y)

\* Vector.magnitude of a horizontal vector
Magnitude(v) == Abs(v.x)

\* constraint.py:155-159 with stiffness 1 and time_scale 1:
\* delta * (current_length - length) / current_length
Force(delta, length) ==
    Vec((delta.x * (Magnitude(delta) - length)) \div Magnitude(delta), 0)

InverseMassOf(end) == IF end.present THEN end.inverse_mass ELSE 0

InverseInertiaOf(end) == IF end.present THEN end.inverse_inertia ELSE 0

\* constraint.py:160-162
mass_total(es) == InverseMassOf(es[1]) + InverseMassOf(es[2])

inertia_total(es) == InverseInertiaOf(es[1]) + InverseInertiaOf(es[2])

resistance_total(es) == mass_total(es) + inertia_total(es)

\* "if body_a and not body_a.get('is_static', False)"
Moves(end) == end.present /\ ~end.is_static

\* amount * share, where
\* share = inverse_mass / mass_total if mass_total != 0 else 0
Shared(amount, end, es) ==
    IF mass_total(es) # 0
    THEN (amount * end.inverse_mass) \div mass_total(es)
    ELSE 0

\* constraint.py:187-192 (dir = -1) and 212-217 (dir = 1)
Shifted(end, force, es, dir) ==
    IF ~Moves(end) THEN end
    ELSE [end EXCEPT
            !.constraint_impulse.x = @ + dir * Shared(force.x, end, es),
            !.constraint_impulse.y = @ + dir * Shared(force.y, end, es),
            !.position.x = @ + dir * Shared(force.x, end, es),
            !.position.y = @ + dir * Shared(force.y, end, es)]

\* Vector.cross(point, force), in twelfths
Cross(point, force) == (point.x * force.y - point.y * force.x) \div 12

\* constraint.py:200 and 225, with angular_stiffness 0
Torque(point, force, end, es) ==
    (Cross(point, force) \div resistance_total(es)) * end.inverse_inertia

\* constraint.py:201-202 (dir = -1) and 226-227 (dir = 1)
Turned(end, point, force, es, dir) ==
    IF ~Moves(end) THEN end
    ELSE [end EXCEPT
            !.constraint_impulse.angle = @ + dir * Torque(point, force, end, es),
            !.angle = @ + dir * Torque(point, force, end, es)]

\* the division by resistance_total raises ZeroDivisionError
Raises(end, es) == Moves(end) /\ resistance_total(es) = 0

\* constraint.py:179-227: the two bodies in turn; an error leaves what was
\* written before it
SolveEnds(es, c, force) ==
    IF Raises(es[1], es)
    THEN [ends |-> <<Shifted(es[1], force, es, 0 - 1), es[2]>>,
          raised |-> TRUE]
    ELSE IF Raises(es[2], es)
    THEN [ends |-> <<Turned(Shifted(es[1], force, es, 0 - 1), c.point_a,
                            force, es, 0 - 1),
                     Shifted(es[2], force, es, 1)>>,
          raised |-> TRUE]
    ELSE [ends |-> <<Turned(Shifted(es[1], force, es, 0 - 1), c.point_a,
                            force, es, 0 - 1),
                     Turned(Shifted(es[2], force, es, 1), c.point_b,
                            force, es, 1)>>,
          raised |-> FALSE]

\* Constraint.solve(constraint, 1): the endpoints after it, and whether it
\* raised an error
solve(es, c) ==
    IF ~es[1].present /\ ~es[2].present
    THEN [ends |-> es, raised |-> FALSE]
    ELSE SolveEnds(es, c, Force(Delta(es, c), c.length))

\* Constraint.create({'body_a': ..., 'body_b': ..., 'point_a': ...,
\* 'point_b': ..., 'length': ...}): a body at the first endpoint is at the
\* origin, one at the second is at (x, 0); the point of an endpoint without
\* a body is given in world space
CreateConstraint(end_a, end_b, x, h, length) ==
    /\ conOp = "none"
    /\ ends' = <<end_a, At(end_b, x)>>
    /\ link' = [point_a |-> Vec(0, h),
                point_b |-> IF end_b.present THEN Vec(0, h) ELSE Vec(x, h),
                length |-> length]
    /\ solved' = [before |-> <<end_a, At(end_b, x)>>, raised |-> FALSE]
    /\ conOp' = "create"
    /\ UNCHANGED exceptConstraint

\* Constraint.solve(constraint, 1), once: the angles of the bodies are those
\* the constraint was created with, its points are not rotated
Solve ==
    /\ conOp = "create"
    /\ ends' = solve(ends, link).ends
    /\ solved' = [before |-> ends, raised |-> solve(ends, link).raised]
    /\ conOp' = "solve"
    /\ UNCHANGED link
    /\ UNCHANGED exceptConstraint

InitConstraint ==
    /\ ends = <<NoEnd, NoEnd>>
    /\ link = [point_a |-> Vec(0, 0), point_b |-> Vec(0, 0), length |-> 0]
    /\ solved = [before |-> <<NoEnd, NoEnd>>, raised |-> FALSE]
    /\ conOp = "none"

NextConstraint ==
    \/ \E end_a, end_b \in ConstraintEnds, x \in Places, h \in Heights,
          length \in Lengths : CreateConstraint(end_a, end_b, x, h, length)
    \/ Solve

(***************************************************************************)
(* core/sleeping.py: Sleeping.after_collisions on a list of pairs           *)
(***************************************************************************)
\* the bodies of the pairs
CrowdIds == {1, 2, 3}

\* what after_collisions reads of a body, and the counter set_sleeping writes
CrowdBodies ==
    [is_static : BOOLEAN, is_sleeping : BOOLEAN, motion : {Zero, Rat(1, 1)},
     sleep_counter : {SleepThreshold}]

\* a pair of the list: its parents and pair['is_active']
StartedPairs ==
    {p \in [parent_a : CrowdIds, parent_b : CrowdIds, is_active : BOOLEAN] :
        p.parent_a # p.parent_b}

\* the lists after_collisions is given: none, one or two pairs
StartedLists == SeqsUpTo(StartedPairs, 2)

\* sleeping.py:37-59, the body of the loop: the bodies after one pair
WakeFor(bs, pair) ==
    IF ~pair.is_active THEN bs
    ELSE IF Woken(bs[pair.parent_a], bs[pair.parent_b]) = "a"
    THEN [bs EXCEPT ![pair.parent_a] = set_sleeping(@, FALSE)]
    ELSE IF Woken(bs[pair.parent_a], bs[pair.parent_b]) = "b"
    THEN [bs EXCEPT ![pair.parent_b] = set_sleeping(@, FALSE)]
    ELSE bs

\* Sleeping.after_collisions(pairs): the bodies after the pairs from the k-th
RECURSIVE after_collisions(_, _, _)
after_collisions(bs, pairs, k) ==
    IF k > Len(pairs) THEN bs
    ELSE after_collisions(WakeFor(bs, pairs[k]), pairs, k + 1)

\* the bodies are created, put to sleep and moved
CreateCrowd(bs) ==
    /\ wakeOp = "none"
    /\ crowd' = bs
    /\ crowdBefore' = bs
    /\ wakeOp' = "create"
    /\ UNCHANGED started
    /\ UNCHANGED exceptWake

\* Sleeping.after_collisions(pairs)
AfterCollisionsOf(pairs) ==
    /\ wakeOp = "create"
    /\ crowd' = after_collisions(crowd, pairs, 1)
    /\ crowdBefore' = crowd
    /\ started' = pairs
    /\ wakeOp' = "after_collisions"
    /\ UNCHANGED exceptWake

InitWake ==
    /\ crowd = <<>>
    /\ crowdBefore = <<>>
    /\ started = <<>>
    /\ wakeOp = "none"

NextWake ==
    \/ /\ wakeOp = "none"
       /\ \E bs \in [CrowdIds -> CrowdBodies] : CreateCrowd(bs)
    \/ \E pairs \in StartedLists : AfterCollisionsOf(pairs)

(***************************************************************************)
(* collision/detector.py: the sweep and prune of Detector.collisions on     *)
(* three bodies, the first of which may be a compound of two parts; what is *)
(* followed is the list of the calls of Collision.collides                  *)
(***************************************************************************)
SweepIds == {1, 2, 3}

\* the bounds of a body or part
Box(id, min_x, max_x, min_y) ==
    [id |-> id, min_x |-> min_x, max_x |-> max_x, min_y |-> min_y,
     max_y |-> min_y + 1]

\* a body of a single part: body['parts'] = [body]
SweepBody(id, min_x, min_y, flags, group) ==
    [id |-> id, min_x |-> min_x, max_x |-> min_x + 1, min_y |-> min_y,
     max_y |-> min_y + 1, is_static |-> flags[1], is_sleeping |-> flags[2],
     collision_filter |-> [DefaultFilter EXCEPT !.group = group],
     parts |-> <<Box(id, min_x, min_x + 1, min_y)>>]

\* Body.create({'parts': [left, right]}): a compound of two parts side by
\* side, the second one a row lower; parts[0] is the body itself, with the
\* bounds of the hull
CompoundOf(b) ==
    [b EXCEPT !.max_x = b.min_x + 2, !.max_y = b.min_y + 2,
              !.parts = <<[Box(b.id, b.min_x, b.min_x + 2, b.min_y)
                             EXCEPT !.max_y = b.min_y + 2],
                          Box(b.id + 3, b.min_x, b.min_x + 1, b.min_y),
                          Box(b.id + 4, b.min_x + 1, b.min_x + 2,
                              b.min_y + 1)>>]

SweepFlags == {<<FALSE, FALSE>>, <<TRUE, FALSE>>, <<FALSE, TRUE>>}

SweepBodies(id, flags, groups) ==
    {SweepBody(id, min_x, min_y, f, group) :
        min_x \in {0, 1, 2}, min_y \in {0, 2}, f \in flags, group \in groups}

\* the orders of detector['bodies']
SweepOrders ==
    {<<1, 2, 3>>, <<1, 3, 2>>, <<2, 1, 3>>, <<2, 3, 1>>, <<3, 1, 2>>,
     <<3, 2, 1>>}

\* the place of the body id in the list
PlaceIn(order, id) == CHOOSE k \in 1..Len(order) : order[k] = id

\* detector.py:43: bodies.sort(key=bounds.min.x), a stable sort
SortedByMinX(bs, order) ==
    CHOOSE s \in SweepOrders :
        \A i, j \in 1..3 : i < j =>
            \/ bs[s[i]].min_x < bs[s[j]].min_x
            \/ /\ bs[s[i]].min_x = bs[s[j]].min_x
               /\ PlaceIn(order, s[i]) < PlaceIn(order, s[j])

\* detector.py:101-105: the test of the bounds of two parts
PartsApart(part_a, part_b) ==
    \/ part_a.min_x > part_b.max_x
    \/ part_a.max_x < part_b.min_x
    \/ part_a.max_y < part_b.min_y
    \/ part_a.min_y > part_b.max_y

\* "parts_a_start = 1 if parts_a_length > 1 else 0"
PartsStart(body) == IF Len(body.parts) > 1 THEN 2 ELSE 1

\* detector.py:92-114: the calls of Collision.collides on the parts of two
\* bodies, from the parts k of body_a and z of body_b on
RECURSIVE PartCalls(_, _, _, _, _)
PartCalls(body_a, body_b, k, z, calls) ==
    IF k > Len(body_a.parts) THEN calls
    ELSE IF z > Len(body_b.parts)
    THEN PartCalls(body_a, body_b, k + 1, PartsStart(body_b), calls)
    ELSE IF PartsApart(body_a.parts[k], body_b.parts[z])
    THEN PartCalls(body_a, body_b, k, z + 1, calls)
    ELSE PartCalls(body_a, body_b, k, z + 1,
                   Append(calls, <<body_a.parts[k].id, body_b.parts[z].id>>))

\* detector.py:63-114 for one pair that the sweep has not cut off
PairCalls(body_a, body_b, calls) ==
    IF body_a.max_y < body_b.min_y \/ body_a.min_y > body_b.max_y THEN calls
    ELSE IF Idle(body_a) /\ Idle(body_b) THEN calls
    ELSE IF ~can_collide(body_a.collision_filter, body_b.collision_filter)
    THEN calls
    ELSE IF Len(body_a.parts) = 1 /\ Len(body_b.parts) = 1
    THEN Append(calls, <<body_a.id, body_b.id>>)
    ELSE PartCalls(body_a, body_b, PartsStart(body_a), PartsStart(body_b),
                   calls)

\* as SweepCalls, but the sweep stops at a body that only touches body_a
RECURSIVE SweepCalls_BreakOnTouch(_, _, _, _, _)
SweepCalls_BreakOnTouch(bs, s, i, j, calls) ==
    IF i > Len(s) THEN calls
    ELSE IF j > Len(s) THEN SweepCalls_BreakOnTouch(bs, s, i + 1, i + 2, calls)
    ELSE IF bs[s[j]].min_x >= bs[s[i]].max_x
    THEN SweepCalls_BreakOnTouch(bs, s, i + 1, i + 2, calls)
    ELSE SweepCalls_BreakOnTouch(bs, s, i, j + 1,
                                 PairCalls(bs[s[i]], bs[s[j]], calls))

\* detector.py:45-114: the two loops over the sorted bodies, with the break
\* of the inner one
RECURSIVE SweepCalls(_, _, _, _, _)
SweepCalls(bs, s, i, j, calls) ==
    IF i > Len(s) THEN calls
    ELSE IF j > Len(s) THEN SweepCalls(bs, s, i + 1, i + 2, calls)
    ELSE IF bs[s[j]].min_x > bs[s[i]].max_x
    THEN SweepCalls(bs, s, i + 1, i + 2, calls)
    ELSE SweepCalls(bs, s, i, j + 1, PairCalls(bs[s[i]], bs[s[j]], calls))

\* the bodies are created; the first one is a compound or not
CreateSweep(b1, b2, b3, compound) ==
    /\ sweepOp = "none"
    /\ swept' = [id \in SweepIds |->
                    IF id = 1 THEN (IF compound THEN CompoundOf(b1) ELSE b1)
                    ELSE IF id = 2 THEN b2 ELSE b3]
    /\ sweepOp' = "create"
    /\ UNCHANGED <<listed, narrowCalls>>
    /\ UNCHANGED exceptSweep

\* Detector.set_bodies(detector, bodies) with the bodies in the given order,
\* then Detector.collisions(detector)
SweepCollisions(order) ==
    /\ sweepOp = "create"
    /\ listed' = order
    /\ narrowCalls' = SweepCalls(swept, SortedByMinX(swept, order), 1, 2, <<>>)
    /\ sweepOp' = "collisions"
    /\ UNCHANGED swept
    /\ UNCHANGED exceptSweep

InitSweep ==
    /\ swept = <<>>
    /\ listed = <<>>
    /\ narrowCalls = <<>>
    /\ sweepOp = "none"

NextSweep ==
    \/ /\ sweepOp = "none"
       /\ \E b1 \in SweepBodies(1, SweepFlags, {0, 0 - 1}),
             b2 \in SweepBodies(2, SweepFlags, {0, 0 - 1}),
             b3 \in SweepBodies(3, {<<FALSE, FALSE>>, <<TRUE, FALSE>>}, {0}),
             compound \in BOOLEAN :
             CreateSweep(b1, b2, b3, compound)
    \/ \E order \in SweepOrders : SweepCollisions(order)

(***************************************************************************)
(* Engine.update on a world of boxes in a row: detection, the pair cache   *)
(* and collision/resolver.py                                               *)
(*                                                                         *)
(* The boxes are squares made by Bodies.rectangle(x, 0, 4, 4): they lie on *)
(* one horizontal line, meet face to face and do not turn, so only the x   *)
(* components are followed.  The engine is created without gravity and     *)
(* without sleeping, the world holds no constraint and every body starts   *)
(* at rest (velocity 0).  Numbers are exact fractions.                     *)
(***************************************************************************)
\* the side of a box
BoxWidth == 4

\* the bodies made by Bodies.rectangle
SolidIds == {1, 2, 3}

\* the id of the body made by Body.create({'parts': [...]}), made last
CompoundId == Cardinality(SolidIds) + 1

\* body.py:61 "'slop': 0.05"
Slop == Rat(1, 20)

\* resolver.py:12
_position_dampen == Rat(9, 10)

\* resolver.py:13
_position_warming == Rat(4, 5)

Negated(x) == Rat(0 - x.n, x.d)
Minus(x, y) == Plus(x, Negated(y))
Magnitude1(x) == Rat(Abs(x.n), x.d)
Times(sign, x) == Rat(sign * x.n, x.d)
\* x < y and x * y, on fractions, keeping the numbers small
LessThan(x, y) == Minus(x, y).n < 0
Product(x, y) ==
    Rat((x.n \div GCD(Abs(x.n), y.d)) * (y.n \div GCD(Abs(y.n), x.d)),
        (x.d \div GCD(Abs(y.n), x.d)) * (y.d \div GCD(Abs(x.n), y.d)))

\* Bodies.rectangle(x, 0, 4, 4, {'is_static': .., 'is_sensor': ..}): the
\* fields of the body the engine reads.  A static body has inverse mass 0, a
\* box of the default density 0.001 has mass 0.016.
Solid(id, x, is_static, is_sensor) ==
    [id |-> id, parent |-> id, parts |-> <<id>>, in_world |-> TRUE,
     is_static |-> is_static, is_sensor |-> is_sensor,
     inverse_mass |-> IF is_static THEN Zero ELSE Rat(125, 2),
     position |-> Rat(x, 1), position_prev |-> Rat(x, 1),
     velocity |-> Zero, position_impulse |-> Zero, total_contacts |-> 0]

\* Body.set_static(body, True) on a body of one part
SolidStatic(b) ==
    [b EXCEPT !.is_static = TRUE, !.inverse_mass = Zero,
              !.position_prev = b.position]

\* Body.create({'parts': [part]}): the new body is its own first part, stands
\* where its part stands, and becomes the parent of the part
SolidCompound(id, part) ==
    [id |-> id, parent |-> id, parts |-> <<id, part.id>>, in_world |-> FALSE,
     is_static |-> FALSE, is_sensor |-> FALSE,
     inverse_mass |-> part.inverse_mass,
     position |-> part.position, position_prev |-> part.position,
     velocity |-> Zero, position_impulse |-> Zero, total_contacts |-> 0]

\* Composite.all_bodies(world), as a set
WorldBodies(bs) == {id \in DOMAIN bs : bs[id].in_world}

\* bounds.min.x and bounds.max.x of a body: a compound of one part has the
\* bounds of its part
BoundsMinX(b) == Minus(b.position, Rat(BoxWidth, 2))
BoundsMaxX(b) == Plus(b.position, Rat(BoxWidth, 2))

\* detector.py:43 "bodies.sort(key=lambda b: b['bounds']['min']['x'])"
SortedSolids(bs) ==
    CHOOSE order \in [1..Cardinality(WorldBodies(bs)) -> WorldBodies(bs)] :
        /\ \A i, j \in DOMAIN order : i # j => order[i] # order[j]
        /\ \A i, j \in DOMAIN order :
               i < j => ~LessThan(BoundsMinX(bs[order[j]]), BoundsMinX(bs[order[i]]))

\* detector.py:45-55: the pairs (i, j), i < j, in the order of the two loops
RECURSIVE Following(_, _, _)
Following(order, i, j) ==
    IF j > Len(order) THEN <<>>
    ELSE <<<<order[i], order[j]>>>> \o Following(order, i, j + 1)

RECURSIVE Candidates(_, _)
Candidates(order, i) ==
    IF i >= Len(order) THEN <<>>
    ELSE Following(order, i, i + 1) \o Candidates(order, i + 1)

\* detector.py:60-69: the sweep on x, and the pair of two static bodies
Skipped(body_a, body_b) ==
    \/ LessThan(BoundsMaxX(body_a), BoundsMinX(body_b))
    \/ body_a.is_static /\ body_b.is_static

\* detector.py:77-100: the part of a body that is tested, which is the body
\* itself, or the one part of a compound after the compound itself
TestedPart(b) == IF Len(b.parts) > 1 THEN b.parts[Len(b.parts)] ELSE b.parts[1]

\* collision.py:44-50: the overlap of two boxes of the row
Depth(bs, x, y) ==
    Minus(Rat(BoxWidth, 1), Magnitude1(Minus(bs[y].position, bs[x].position)))

\* collision.py:60-65: a new collision record takes the parents the bodies
\* have now
FreshRecord(bs, x, y) ==
    [body_a |-> IF x < y THEN x ELSE y, body_b |-> IF x < y THEN y ELSE x,
     parent_a |-> bs[IF x < y THEN x ELSE y].parent,
     parent_b |-> bs[IF x < y THEN y ELSE x].parent]

\* collision.py:53-67: the record of the pair whose key is made of the ids of
\* the two bodies tested is used again as it is, its parents included
CachedRecord(bs, table, obj, x, y) ==
    IF id_from_bodies(x, y) \in table
    THEN [f \in {"body_a", "body_b", "parent_a", "parent_b"} |->
             obj[id_from_bodies(x, y)].collision[f]]
    ELSE FreshRecord(bs, x, y)

\* collision.py:85-92: the normal points from body_b to body_a
RowNormal(bs, rec) ==
    IF LessThan(bs[rec.body_b].position, bs[rec.body_a].position) THEN 1 ELSE 0 - 1

\* Collision.collides(x, y, pairs): none (the empty list) when the boxes do
\* not overlap; two boxes that meet face to face have two supports
RowCollides(bs, table, obj, x, y) ==
    IF ~LessThan(Zero, Depth(bs, x, y)) THEN <<>>
    ELSE <<[parent_a |-> CachedRecord(bs, table, obj, x, y).parent_a,
            parent_b |-> CachedRecord(bs, table, obj, x, y).parent_b,
            support_count |-> 2,
            body_a |-> CachedRecord(bs, table, obj, x, y).body_a,
            body_b |-> CachedRecord(bs, table, obj, x, y).body_b,
            depth |-> Depth(bs, x, y),
            normal |-> RowNormal(bs, CachedRecord(bs, table, obj, x, y))]>>

RECURSIVE Narrowed(_, _, _, _)
Narrowed(bs, table, obj, cands) ==
    IF cands = <<>> THEN <<>>
    ELSE (IF Skipped(bs[Head(cands)[1]], bs[Head(cands)[2]]) THEN <<>>
          ELSE RowCollides(bs, table, obj, TestedPart(bs[Head(cands)[1]]),
                           TestedPart(bs[Head(cands)[2]])))
         \o Narrowed(bs, table, obj, Tail(cands))

\* Detector.set_bodies(detector, all_bodies); Detector.collisions(detector)
RowCollisions(bs, table, obj) ==
    Narrowed(bs, table, obj, Candidates(SortedSolids(bs), 1))

\* pairs['list'] as the resolver reads it: the pair objects, in list order
Listed(list, obj) == [k \in 1..Len(list) |-> obj[list[k]]]

\* pairs.py:126: is_sensor is set when the pair is made, from its two bodies,
\* whose flags do not change afterwards
IsSensorPair(bs, pair) ==
    bs[pair.collision.body_a].is_sensor \/ bs[pair.collision.body_b].is_sensor

\* resolver.py:32-33
Counted(bs, id, contact_count) ==
    [bs EXCEPT ![id].total_contacts = @ + contact_count]

\* Resolver.pre_solve_position(pairs)
RECURSIVE pre_solve_position(_, _)
pre_solve_position(bs, prs) ==
    IF prs = <<>> THEN bs
    ELSE IF ~Head(prs).is_active THEN pre_solve_position(bs, Tail(prs))
    ELSE pre_solve_position(
             Counted(Counted(bs, Head(prs).collision.parent_a,
                             Head(prs).contact_count),
                     Head(prs).collision.parent_b, Head(prs).contact_count),
             Tail(prs))

\* resolver.py:43 and 65: the pairs solve_position and the velocity passes skip
Passed(bs, pair) == ~pair.is_active \/ IsSensorPair(bs, pair)

\* resolver.py:58-62: pair['separation']
Separation(bs, pair) ==
    Plus(pair.collision.depth,
         Times(pair.collision.normal,
                Minus(bs[pair.collision.parent_b].position_impulse,
                      bs[pair.collision.parent_a].position_impulse)))

\* resolver.py:79-82: the impulse of a pair, for a step at least as long as
\* the base step (slop_dampen = 1); the slop of the pair is that of its bodies
PairImpulse(bs, pair) ==
    IF bs[pair.collision.parent_a].is_static
       \/ bs[pair.collision.parent_b].is_static
    THEN Product(Rat(2, 1), Minus(Separation(bs, pair), Slop))
    ELSE Minus(Separation(bs, pair), Slop)

\* resolver.py:85-86 and 91-92: contact_share
ContactShare(b) ==
    IF b.total_contacts > 0
    THEN Div(_position_dampen, Rat(b.total_contacts, 1))
    ELSE _position_dampen

\* resolver.py:84-94: the impulse amount goes to the parent id with the sign
\* given, unless the parent is static
Pushed(bs, id, sign, amount) ==
    IF bs[id].is_static THEN bs
    ELSE [bs EXCEPT ![id].position_impulse =
             Plus(@, Times(sign, Product(amount, ContactShare(bs[id]))))]

\* resolver.py:64-94: the second loop; the separations are those the first
\* loop has computed on the bodies as they were (bs0)
RECURSIVE PushedApart(_, _, _)
PushedApart(bs, bs0, prs) ==
    IF prs = <<>> THEN bs
    ELSE IF Passed(bs, Head(prs)) THEN PushedApart(bs, bs0, Tail(prs))
    ELSE PushedApart(
             Pushed(Pushed(bs, Head(prs).collision.parent_a,
                           Head(prs).collision.normal,
                           PairImpulse(bs0, Head(prs))),
                    Head(prs).collision.parent_b,
                    0 - Head(prs).collision.normal,
                    PairImpulse(bs0, Head(prs))),
             bs0, Tail(prs))

\* Resolver.solve_position(pairs, delta)
solve_position(bs, prs) == PushedApart(bs, bs, prs)

\* engine.py:112-113: position_iterations calls of solve_position
RECURSIVE SolvedPositions(_, _, _)
SolvedPositions(bs, prs, n) ==
    IF n = 0 THEN bs ELSE SolvedPositions(solve_position(bs, prs), prs, n - 1)

\* resolver.py:122-129: the cached impulse is dropped when the body moves
\* against it, and warmed otherwise
Warmed(b) ==
    IF LessThan(Product(b.position_impulse, b.velocity), Zero) THEN Zero
    ELSE Product(b.position_impulse, _position_warming)

\* resolver.py:99-129 on one body of the list
PostSolved(b) ==
    IF b.position_impulse = Zero THEN [b EXCEPT !.total_contacts = 0]
    ELSE [b EXCEPT !.total_contacts = 0,
                   !.position = Plus(@, b.position_impulse),
                   !.position_prev = Plus(@, b.position_impulse),
                   !.position_impulse = Warmed(b)]

\* Resolver.post_solve_position(all_bodies): the bodies of the world, and with
\* each of them its parts (resolver.py:112-116)
post_solve_position(bs) ==
    [id \in DOMAIN bs |->
        IF bs[id].in_world THEN PostSolved(bs[id])
        ELSE IF bs[id].parent # id /\ bs[bs[id].parent].in_world
        THEN [bs[id] EXCEPT !.position =
                 Plus(@, bs[bs[id].parent].position_impulse)]
        ELSE bs[id]]

\* the cached normal impulses of the contacts of a pair, summed
CachedImpulse(pair) ==
    IF pair.contact_count = 0 THEN 0
    ELSE IF pair.contact_count = 1 THEN pair.contacts[1].normal_impulse
    ELSE pair.contacts[1].normal_impulse + pair.contacts[2].normal_impulse

\* resolver.py:159-173 and 306-314: an impulse along the normal changes
\* position_prev of a parent that is not static
Kicked(bs, id, impulse) ==
    IF bs[id].is_static THEN bs
    ELSE [bs EXCEPT ![id].position_prev =
             Plus(@, Product(impulse, bs[id].inverse_mass))]

\* Resolver.pre_solve_velocity(pairs): the cached impulses are applied again
RECURSIVE pre_solve_velocity(_, _)
pre_solve_velocity(bs, prs) ==
    IF prs = <<>> THEN bs
    ELSE IF Passed(bs, Head(prs)) THEN pre_solve_velocity(bs, Tail(prs))
    ELSE pre_solve_velocity(
             Kicked(Kicked(bs, Head(prs).collision.parent_a,
                           Rat(Head(prs).collision.normal
                               * CachedImpulse(Head(prs)), 1)),
                    Head(prs).collision.parent_b,
                    Rat(0 - Head(prs).collision.normal
                            * CachedImpulse(Head(prs)), 1)),
             Tail(prs))

\* resolver.py:212-240: the velocity of body_a relative to body_b along the
\* normal, the same at every contact of bodies that do not turn
NormalVelocity(bs, pair) ==
    Times(pair.collision.normal,
           Minus(Minus(bs[pair.collision.parent_a].position,
                       bs[pair.collision.parent_a].position_prev),
                 Minus(bs[pair.collision.parent_b].position,
                       bs[pair.collision.parent_b].position_prev)))

\* Resolver.solve_velocity(pairs, delta) on pairs whose bodies have no
\* velocity relative to one another and whose contacts cache no impulse: the
\* raw impulses (resolver.py:272-273) are products of the normal and tangent
\* velocity, which are 0, so the cached impulses stay 0 (282-285, 294-299) and
\* position_prev changes by 0 (306-314)
RECURSIVE solve_velocity(_, _)
solve_velocity(bs, prs) ==
    IF prs = <<>> THEN bs
    ELSE IF Passed(bs, Head(prs)) THEN solve_velocity(bs, Tail(prs))
    ELSE solve_velocity(
             Kicked(Kicked(bs, Head(prs).collision.parent_a,
                           NormalVelocity(bs, Head(prs))),
                    Head(prs).collision.parent_b,
                    Negated(NormalVelocity(bs, Head(prs)))),
             Tail(prs))

\* no pair the velocity passes work on has a normal velocity or a cached
\* impulse: the case solve_velocity is modelled for
Quiet(bs, prs) ==
    \A k \in 1..Len(prs) :
        ~Passed(bs, prs[k]) =>
            NormalVelocity(bs, prs[k]) = Zero /\ CachedImpulse(prs[k]) = 0

\* engine.py:109-121: the five passes of the resolver, with n position
\* iterations, on bodies whose contacts pre_solve_position has counted
AfterCount(counted_bs, prs, n) ==
    solve_velocity(
        pre_solve_velocity(
            post_solve_position(SolvedPositions(counted_bs, prs, n)), prs),
        prs)

\* engine.py:109-121 on the bodies bs and the pair list prs
Resolved(bs, prs, n) == AfterCount(pre_solve_position(bs, prs), prs, n)

\* the bodies at rest: Body.update, Sleeping and Body.update_velocities leave
\* such a body as it is when there is no gravity
AtRest(bs) ==
    \A id \in WorldBodies(bs) : bs[id].position_prev = bs[id].position

\* Engine.create({'gravity': {'x': 0, 'y': 0}, 'position_iterations': n}) and
\* three boxes added to the world: box 1 in the middle, box 2 overlapping it
\* on the right, box 3 on the left, overlapping it or away from it
CreateSolids(n, static2, static3, sensor3, x3) ==
    /\ solverOp = "none"
    /\ solid = <<>>
    /\ solid' = [id \in SolidIds |->
                    IF id = 1 THEN Solid(1, 0, FALSE, FALSE)
                    ELSE IF id = 2 THEN Solid(2, 3, static2, FALSE)
                    ELSE Solid(3, x3, static3, sensor3)]
    /\ solidBefore' = solid'
    /\ counted' = [id \in SolidIds |-> 0]
    /\ position_iterations' = n
    /\ solverOp' = "create"
    /\ UNCHANGED exceptSolver

\* Body.set_static(body, True), on box 2
SetSolidStatic(id) ==
    /\ solverOp # "none"
    /\ id \in DOMAIN solid
    /\ Len(solid[id].parts) = 1 /\ solid[id].parent = id
    /\ ~solid[id].is_static
    /\ solid' = [solid EXCEPT ![id] = SolidStatic(@)]
    /\ solverOp' = "set_static"
    /\ UNCHANGED <<solidBefore, counted, position_iterations>>
    /\ UNCHANGED exceptSolver

\* Composite.remove(world, body)
WorldRemove(id) ==
    /\ solverOp # "none"
    /\ id \in WorldBodies(solid)
    /\ solid' = [solid EXCEPT ![id].in_world = FALSE]
    /\ solverOp' = "remove"
    /\ UNCHANGED <<solidBefore, counted, position_iterations>>
    /\ UNCHANGED exceptSolver

\* Composite.add(world, body), of a body that is not part of another one and
\* whose parts are not in the world themselves
WorldAdd(id) ==
    /\ solverOp # "none"
    /\ id \in DOMAIN solid
    /\ ~solid[id].in_world
    /\ solid[id].parent = id
    /\ \A k \in 1..Len(solid[id].parts) :
           solid[id].parts[k] # id => ~solid[solid[id].parts[k]].in_world
    /\ solid' = [solid EXCEPT ![id].in_world = TRUE]
    /\ solverOp' = "add"
    /\ UNCHANGED <<solidBefore, counted, position_iterations>>
    /\ UNCHANGED exceptSolver

\* compound = Body.create({'parts': [box 1]}), once box 1 is out of the world
WrapBox ==
    /\ solverOp # "none"
    /\ CompoundId \notin DOMAIN solid
    /\ ~solid[1].in_world
    /\ solid' = [id \in DOMAIN solid \cup {CompoundId} |->
                    IF id = CompoundId THEN SolidCompound(CompoundId, solid[1])
                    ELSE IF id = 1 THEN [solid[1] EXCEPT !.parent = CompoundId]
                    ELSE solid[id]]
    /\ solverOp' = "compound"
    /\ UNCHANGED <<solidBefore, counted, position_iterations>>
    /\ UNCHANGED exceptSolver

\* Engine.update(engine, dt), whole.  Gravity is zero (engine.py:166-167),
\* the bodies are at rest, so Body.update and Body.update_velocities leave
\* them as they are; there are no constraints and sleeping is off.  What is
\* left is detection, Pairs.update, the events and the resolver.
EngineUpdate(dt) ==
    /\ solverOp # "none"
    /\ AtRest(solid)
    /\ UpdatePairs(RowCollisions(solid, pairs_table, pairObj), dt)
    /\ \E counted_bs \in {pre_solve_position(solid, Listed(pairs_list', pairObj'))} :
          /\ counted' = [id \in DOMAIN solid |-> counted_bs[id].total_contacts]
          /\ solid' = AfterCount(counted_bs, Listed(pairs_list', pairObj'),
                                 position_iterations)
          /\ Quiet(post_solve_position(
                       SolvedPositions(counted_bs, Listed(pairs_list', pairObj'),
                                       position_iterations)),
                   Listed(pairs_list', pairObj'))
    /\ solidBefore' = solid
    /\ solverOp' = "update"
    /\ UNCHANGED position_iterations
    /\ UNCHANGED exceptPairsAndSolver

InitSolver ==
    /\ solid = <<>>
    /\ solidBefore = <<>>
    /\ counted = <<>>
    /\ position_iterations = 0
    /\ solverOp = "none"

NextSolver ==
    \/ /\ solverOp = "none"
       /\ \E n \in {1}, static2, static3, sensor3 \in BOOLEAN,
             x3 \in {0 - 3, 0 - 8} :
             CreateSolids(n, static2, static3, sensor3, x3)
    \/ SetSolidStatic(2)
    \/ \E id \in DOMAIN solid \ {2, 3} : WorldRemove(id)
    \/ \E id \in DOMAIN solid \ {2, 3} : WorldAdd(id)
    \/ WrapBox
    \/ \E dt \in Deltas : EngineUpdate(dt)

(***************************************************************************)
(* core/engine.py: the calls one Engine.update makes, in their order       *)
(*                                                                         *)
(* The world holds two bodies and a list of constraints.  A constraint     *)
(* names its two endpoints by the number of the body, 0 for an endpoint    *)
(* that is absent (a point of the world).  What the calls compute is       *)
(* followed elsewhere; here only which calls are made, and when.           *)
(***************************************************************************)
Call(name, arg) == [name |-> name, arg |-> arg]

BodyKinds ==
    {[is_static |-> FALSE, is_sleeping |-> FALSE],
     [is_static |-> TRUE, is_sleeping |-> FALSE],
     [is_static |-> FALSE, is_sleeping |-> TRUE]}

\* the endpoints a constraint of the world can have
ConstraintEndpoints ==
    {[body_a |-> 0, body_b |-> 1], [body_a |-> 2, body_b |-> 0],
     [body_a |-> 1, body_b |-> 2], [body_a |-> 2, body_b |-> 1]}

ConstraintLists == SeqsUpTo(ConstraintEndpoints, 2)

IterationCounts == {1, 2}

Indices(s) == [k \in 1..Len(s) |-> k]

\* one call of the given name for each index of the list
CallsFor(name, indices) == [k \in 1..Len(indices) |-> Call(name, indices[k])]

\* engine.py:83 and 171: "if body.get('is_static', False) or
\* body.get('is_sleeping', False): continue"
Integrated(b) == ~(b.is_static \/ b.is_sleeping)

\* _bodies_apply_gravity(all_bodies, gravity): nothing when the gravity is
\* zero, else a force on every body that is neither static nor sleeping
GravityCalls(bs, has_gravity) ==
    IF ~has_gravity THEN <<>>
    ELSE CallsFor("gravity",
                 SelectSeq(Indices(bs), LAMBDA k : Integrated(bs[k])))

\* engine.py:82-85: Body.update(body, delta)
IntegrationCalls(bs) ==
    CallsFor("Body.update", SelectSeq(Indices(bs), LAMBDA k : Integrated(bs[k])))

\* constraint.py:99-100 and 108-109: "fixed_a = not body_a or (body_a and
\* body_a.get('is_static', False))"
FixedEnd(bs, end) == end = 0 \/ bs[end].is_static

\* as solve_all, but the constraints are solved in the order of the list
solve_all_InListOrder(bs, cs) == CallsFor("solve", Indices(cs))

\* Constraint.solve_all(constraints, delta): the calls of Constraint.solve
solve_all(bs, cs) ==
    CallsFor("solve",
            SelectSeq(Indices(cs),
                      LAMBDA k : FixedEnd(bs, cs[k].body_a)
                                 \/ FixedEnd(bs, cs[k].body_b)))
    \o CallsFor("solve",
               SelectSeq(Indices(cs),
                         LAMBDA k : ~FixedEnd(bs, cs[k].body_a)
                                    /\ ~FixedEnd(bs, cs[k].body_b)))

\* engine.py:89-90: "for _ in range(engine['constraint_iterations'])"; pass
\* counts the calls of solve_all
RECURSIVE SolveAllCalls(_, _, _, _)
SolveAllCalls(bs, cs, pass, n) ==
    IF pass > n THEN <<>>
    ELSE <<Call("solve_all", pass)>> \o solve_all(bs, cs)
         \o SolveAllCalls(bs, cs, pass + 1, n)

\* engine.py:87-92
ConstraintCalls(bs, cs, n) ==
    <<Call("pre_solve_all", 0)>> \o SolveAllCalls(bs, cs, 1, n)
    \o <<Call("post_solve_all", 0)>>

\* the same call, n times
Repeated(name, n) == [k \in 1..n |-> Call(name, k)]

\* engine.py:94-107: detection, the pair cache, waking, the event
DetectionCalls(enable_sleeping, has_started) ==
    <<Call("Detector.collisions", 0), Call("Pairs.update", 0)>>
    \o (IF enable_sleeping THEN <<Call("Sleeping.after_collisions", 0)>>
        ELSE <<>>)
    \o (IF has_started THEN <<Call("collisionStart", 0)>> ELSE <<>>)

\* engine.py:109-115
PositionCalls(n) ==
    <<Call("pre_solve_position", 0)>> \o Repeated("solve_position", n)
    \o <<Call("post_solve_position", 0)>>

\* as VelocityCalls, but the cached impulses are applied after the iterations
VelocityCalls_WarmStartLast(n) ==
    Repeated("solve_velocity", n) \o <<Call("pre_solve_velocity", 0)>>

\* engine.py:117-121
VelocityCalls(n) ==
    <<Call("pre_solve_velocity", 0)>> \o Repeated("solve_velocity", n)

\* engine.py:123-142: sleeping, the events, the velocities, the forces
ClosingCalls(bs, enable_sleeping, has_active, has_ended) ==
    (IF enable_sleeping THEN <<Call("Sleeping.update", 0)>> ELSE <<>>)
    \o (IF has_active THEN <<Call("collisionActive", 0)>> ELSE <<>>)
    \o (IF has_ended THEN <<Call("collisionEnd", 0)>> ELSE <<>>)
    \o CallsFor("Body.update_velocities", Indices(bs))
    \o <<Call("clear_forces", 0), Call("afterUpdate", 0)>>

\* Engine.update(engine, delta): every call it makes, in order.  found tells
\* which of the three lists Pairs.update leaves are filled.
EngineCalls(e, found) ==
    <<Call("beforeUpdate", 0), Call("Detector.set_bodies", 0)>>
    \o GravityCalls(e.bodies, e.has_gravity)
    \o IntegrationCalls(e.bodies)
    \o ConstraintCalls(e.bodies, e.constraints, e.constraint_iterations)
    \o DetectionCalls(e.enable_sleeping, found.started)
    \o PositionCalls(e.position_iterations)
    \o VelocityCalls(e.velocity_iterations)
    \o ClosingCalls(e.bodies, e.enable_sleeping, found.active, found.ended)

\* Engine.create(options) and a world of two bodies and the constraints cs
CreateEngine(b1, b2, cs, has_gravity, enable_sleeping, iterations) ==
    /\ engineOp = "none"
    /\ engine' = [bodies |-> <<b1, b2>>, constraints |-> cs,
                  has_gravity |-> has_gravity,
                  enable_sleeping |-> enable_sleeping,
                  constraint_iterations |-> iterations[1],
                  position_iterations |-> iterations[2],
                  velocity_iterations |-> iterations[3]]
    /\ callLog' = <<>>
    /\ engineOp' = "create"
    /\ UNCHANGED exceptEngine

\* Engine.update(engine, delta)
EngineStep(found) ==
    /\ engineOp = "create"
    /\ callLog' = EngineCalls(engine, found)
    /\ engineOp' = "update"
    /\ UNCHANGED engine
    /\ UNCHANGED exceptEngine

InitEngine ==
    /\ engine = <<>>
    /\ callLog = <<>>
    /\ engineOp = "none"

NextEngine ==
    \/ /\ engineOp = "none"
       /\ \E b1, b2 \in BodyKinds, cs \in ConstraintLists,
             has_gravity, enable_sleeping \in BOOLEAN,
             iterations \in IterationCounts \X IterationCounts \X IterationCounts :
             CreateEngine(b1, b2, cs, has_gravity, enable_sleeping, iterations)
    \/ \E found \in [started : BOOLEAN, active : BOOLEAN, ended : BOOLEAN] :
           EngineStep(found)

(***************************************************************************)
(* Claims on the pair cache.                                               *)
(***************************************************************************)
Detected == {CollisionId(collisions[i]) : i \in 1..Len(collisions)}

\* the latest collision list holds at most one collision per parent pair
OnePerPair ==
    \A i, j \in 1..Len(collisions) :
        CollisionId(collisions[i]) = CollisionId(collisions[j]) => i = j

AfterUpdate == pairsOp = "update"

\* C1: after a Pairs.update whose list holds at most one collision per parent
\* pair, a pair is in collision_start iff it was detected and was not active
\* when the call began (absent or cached inactive), it is in collision_active
\* iff it was detected and was active when the call began, and every detected
\* pair is active afterwards.
C1_StartActiveLifecycle ==
    (AfterUpdate /\ OnePerPair) =>
        \A id \in PairIds :
            /\ id \in Range(collision_start) <=> (id \in Detected /\ id \notin wasActive)
            /\ id \in Range(collision_active) <=> (id \in Detected /\ id \in wasActive)
            /\ id \in Detected => (id \in DOMAIN pairObj /\ pairObj[id].is_active)

\* an update that started a new pair, restarted a cached inactive pair, or kept
\* an active pair: here one pair restarts while another one stays active
C1_Witness ==
    /\ AfterUpdate /\ OnePerPair
    /\ \E id \in Range(collision_start) : id \in wasCached \ wasActive
    /\ \E id \in Range(collision_active) : id \in wasActive

\* C2: after Pairs.update every pair that was cached and has no collision in
\* the update's list is inactive, is in collision_end, and has normal_impulse
\* and tangent_impulse 0 on all its contacts.
C2_UndetectedPairsEnd ==
    AfterUpdate =>
        \A id \in (wasCached \cup Range(pairs_list)) \ Detected :
            /\ id \in DOMAIN pairObj
            /\ ~pairObj[id].is_active
            /\ id \in Range(collision_end)
            /\ \A j \in DOMAIN pairObj[id].contacts :
                  /\ pairObj[id].contacts[j].normal_impulse = 0
                  /\ pairObj[id].contacts[j].tangent_impulse = 0

\* a pair that was active when the update began and is not detected in it
C2_Witness ==
    /\ AfterUpdate
    /\ \E id \in wasActive : id \notin Detected /\ id \in Range(collision_end)

Evicted(id) == id \notin pairs_table /\ id \notin Range(pairs_list)
Kept(id) == id \in pairs_table /\ Count(pairs_list, id) = 1

\* C3: a cached pair is removed from the table and the list exactly in an
\* update in which it is not detected and timestamp - time_updated > 1000;
\* otherwise it stays in both; the table and the list always hold the same
\* pairs.
C3_EvictionKeepsTableAndListEqual ==
    /\ pairs_table = Range(pairs_list)
    /\ AfterUpdate =>
          \A id \in wasCached :
              IF id \notin Detected
                 /\ timestamp - pairObj[id].time_updated > RetentionHorizon
              THEN Evicted(id)
              ELSE Kept(id)

\* an update that evicts one cached pair and keeps another one, idle for
\* exactly the retention horizon
C3_Witness ==
    /\ AfterUpdate
    /\ \E id \in wasCached : Evicted(id)
    /\ \E id \in wasCached :
          /\ Kept(id) /\ id \notin Detected
          /\ timestamp - pairObj[id].time_updated = RetentionHorizon

(***************************************************************************)
(* Claims on composites.                                                   *)
(***************************************************************************)
SameMultiset(s, t) ==
    \A x \in Range(s) \cup Range(t) : Count(s, x) = Count(t, x)

\* C4: after any sequence of Composite.add and Composite.remove calls,
\* interleaved with all_bodies / all_constraints calls that fill the caches,
\* the next all_bodies(root) returns the same multiset of bodies as a
\* depth-first traversal of root that reads no cache; likewise
\* all_constraints.
C4_CacheConsistency ==
    /\ SameMultiset(Flatten(comp, Root, "body"), Traverse(comp, Root, "body"))
    /\ SameMultiset(Flatten(comp, Root, "constraint"), Traverse(comp, Root, "constraint"))

(***************************************************************************)
(* Claims on bodies.                                                       *)
(***************************************************************************)
\* C5: every body whose is_static flag is true has inverse_mass = 0 and
\* inverse_inertia = 0, with mass, inertia and density infinite, after
\* Body.create with is_static true whatever density, mass and inertia options
\* are supplied, and after any set_static(body, true).
C5_StaticHasZeroInverses ==
    \A i \in RigidBodies :
        (bodies[i].created /\ bodies[i].is_static) =>
            /\ bodies[i].inverse_mass = Zero
            /\ bodies[i].inverse_inertia = Zero
            /\ bodies[i].mass = Inf
            /\ bodies[i].inertia = Inf
            /\ bodies[i].density = Inf

\* C6: every body whose is_static flag is false has a finite mass > 0 and
\* inverse_mass = 1 / mass, non-zero, after any sequence of Body.create and
\* set_static calls, also after set_static(body, false) on a body that was
\* created static.
C6_DynamicHasFiniteMass ==
    \A i \in RigidBodies :
        (bodies[i].created /\ ~bodies[i].is_static) =>
            /\ IsFinite(bodies[i].mass)
            /\ bodies[i].mass.n > 0
            /\ bodies[i].inverse_mass = Div(Rat(1, 1), bodies[i].mass)
            /\ bodies[i].inverse_mass # Zero

\* the fields Body.set_static saves and restores
Material(b) ==
    [restitution |-> b.restitution, friction |-> b.friction, mass |-> b.mass,
     inertia |-> b.inertia, density |-> b.density,
     inverse_mass |-> b.inverse_mass, inverse_inertia |-> b.inverse_inertia]

\* set_static(body, true), one or more times, then set_static(body, false)
\* have just run on a body that was not static
RoundTripDone == episode.body # 0 /\ episode.closed

\* every part has the material fields it had before, and is not static
PartsRestored ==
    \A j \in DOMAIN episode.snap :
        /\ Material(bodies[j]) = Material(episode.snap[j])
        /\ ~bodies[j].is_static

\* C11 as stated: for a body that is not static, set_static(body, true)
\* applied one or more times followed by set_static(body, false) leaves
\* restitution, friction, mass, inertia, density, inverse_mass and
\* inverse_inertia of every part equal to their values before the first
\* set_static(true), and is_static false.
C11_SetStaticRoundTrip == RoundTripDone => PartsRestored

\* C11: for a body none of whose parts is static, set_static(body, true)
\* applied one or more times followed by set_static(body, false) leaves
\* restitution, friction, mass, inertia, density, inverse_mass and
\* inverse_inertia of every part equal to their values before the first
\* set_static(true), and is_static false.
C11_SetStaticRoundTripOfDynamicParts ==
    (RoundTripDone /\ \A j \in DOMAIN episode.snap : ~episode.snap[j].is_static)
        => PartsRestored

\* a compound body with finite mass went through the round trip
C11_Witness ==
    /\ RoundTripDone
    /\ Cardinality(DOMAIN episode.snap) >= 2
    /\ \A j \in DOMAIN episode.snap :
          ~episode.snap[j].is_static /\ IsFinite(episode.snap[j].mass)

\* C18: for every body b, after Body.create and after any sequence of
\* Body.set_parts calls on any bodies, parts[0] of b is b itself and every
\* further element of b.parts has b as its parent.
C18_PartsHaveTheirBodyAsParent ==
    \A i \in RigidBodies :
        bodies[i].created =>
            /\ bodies[i].parts[1] = i
            /\ \A k \in 2..Len(bodies[i].parts) :
                  bodies[bodies[i].parts[k]].parent = i

\* C15: after every Resolver.solve_velocity pass, in any sequence of updates in
\* which pairs start, stay active, end and restart, every contact of every
\* pair has normal_impulse <= 0.
C15_NormalImpulseNeverPulls ==
    (pairsOp = "solve_velocity") =>
        \A id \in DOMAIN pairObj : \A j \in DOMAIN pairObj[id].contacts :
            pairObj[id].contacts[j].normal_impulse <= 0

\* a pair that was ended has started again and carries a normal impulse
\* after the pass
C15_Witness ==
    /\ pairsOp = "solve_velocity"
    /\ \E k \in 1..Len(collision_start) :
          /\ collision_start[k] \in wasCached
          /\ pairObj[collision_start[k]].is_active
          /\ pairObj[collision_start[k]].contacts[1].normal_impulse < 0

(***************************************************************************)
(* Claims on the detector.                                                 *)
(***************************************************************************)
\* the bounds of the two bodies overlap by more than a point
Overlapping ==
    /\ world[1].min_x < world[2].max_x
    /\ world[2].min_x < world[1].max_x

SameGroup ==
    /\ world[1].collision_filter.group = world[2].collision_filter.group
    /\ world[1].collision_filter.group # 0

\* (category_a & mask_b) != 0 and (category_b & mask_a) != 0
MasksAgree ==
    /\ BitAnd(world[1].collision_filter.category,
              world[2].collision_filter.mask) # 0
    /\ BitAnd(world[2].collision_filter.category,
              world[1].collision_filter.mask) # 0

\* the pair of the two bodies
WorldPair == id_from_bodies(1, 2)

\* C12: across any number of Engine.update steps, two overlapping bodies whose
\* collision filters have the same non-zero negative group never produce a
\* pair (none in the pair list or in collision_start), whatever their
\* category and mask; with the same positive group the filter never rejects
\* them, whatever their category and mask; in every other case the filter
\* passes iff (category_a & mask_b) != 0 and (category_b & mask_a) != 0.
C12_FilterGroupsAndMasks ==
    (detOp # "none") =>
        /\ (SameGroup /\ world[1].collision_filter.group < 0) =>
              (pairs_list = <<>> /\ collision_start = <<>>)
        /\ (detOp = "update" /\ Overlapping) =>
              ((collisions # <<>>) <=>
                  IF SameGroup THEN world[1].collision_filter.group > 0
                  ELSE MasksAgree)

\* bodies of the same positive group whose masks exclude each other have
\* collided, and their pair has started
C12_Witness ==
    /\ detOp = "update"
    /\ Overlapping
    /\ SameGroup
    /\ world[1].collision_filter.group > 0
    /\ ~MasksAgree
    /\ collision_start = <<WorldPair>>

\* C13: in any update, two bodies that are both static or sleeping at
\* detection time produce no collision record, and no pair for them is
\* created or placed in collision_start or collision_active in that update.
C13_IdleBodiesAreSkipped ==
    (detOp = "update" /\ Idle(world[1]) /\ Idle(world[2])) =>
        /\ collisions = <<>>
        /\ WorldPair \notin Range(collision_start)
        /\ WorldPair \notin Range(collision_active)
        /\ WorldPair \in pairs_table => WorldPair \in wasCached

\* an overlapping static body and sleeping body whose pair was active have
\* gone through an update
C13_Witness ==
    /\ detOp = "update"
    /\ Overlapping
    /\ world[1].is_static /\ ~world[1].is_sleeping
    /\ world[2].is_sleeping /\ ~world[2].is_static
    /\ WorldPair \in wasActive
    /\ collision_end = <<WorldPair>>

(***************************************************************************)
(* Claims on events.                                                       *)
(***************************************************************************)
EventOrder ==
    <<"beforeUpdate", "collisionStart", "collisionActive", "collisionEnd",
      "afterUpdate">>

\* the place of an event in the order
Rank(name) == CHOOSE k \in 1..Len(EventOrder) : EventOrder[k] = name

\* the i-th event triggered is the named one: it carries the list, and the
\* list is not empty
Carries(i, name, pairs) ==
    events[i].name = name => (events[i].event.pairs = pairs /\ pairs # <<>>)

\* C16: in every Engine.update the events are triggered in the order
\* beforeUpdate, collisionStart, collisionActive, collisionEnd, afterUpdate;
\* beforeUpdate and afterUpdate are triggered exactly once, and each collision
\* event is triggered at most once, carrying that update's pair list, and
\* only when that list is non-empty.
C16_EventsInOrderOncePerUpdate ==
    (pairsOp = "update") =>
        /\ \A i, j \in 1..Len(events) :
              i < j => Rank(events[i].name) < Rank(events[j].name)
        /\ \E i \in 1..Len(events) : events[i].name = "beforeUpdate"
        /\ \E i \in 1..Len(events) : events[i].name = "afterUpdate"
        /\ \A i \in 1..Len(events) :
              /\ Carries(i, "collisionStart", collision_start)
              /\ Carries(i, "collisionActive", collision_active)
              /\ Carries(i, "collisionEnd", collision_end)

\* an update in which a pair started, one stayed active and one ended has
\* triggered the five events
C16_Witness ==
    /\ pairsOp = "update"
    /\ collision_start # <<>>
    /\ collision_active # <<>>
    /\ collision_end # <<>>
    /\ Len(events) = Len(EventOrder)

(***************************************************************************)
(* Claims on constraints.                                                  *)
(***************************************************************************)
\* C14: when the inverse masses of a constraint's endpoints sum to zero (both
\* endpoints static, or an endpoint absent, or a non-static endpoint with
\* inverse mass 0), Constraint.solve raises no error and leaves position,
\* angle, position_prev and constraint_impulse of every body unchanged.
C14_ZeroMassSumSolveDoesNothing ==
    (conOp = "solve" /\ mass_total(solved.before) = 0) =>
        /\ ~solved.raised
        /\ \A i \in {1, 2} :
              /\ ends[i].position = solved.before[i].position
              /\ ends[i].angle = solved.before[i].angle
              /\ ends[i].position_prev = solved.before[i].position_prev
              /\ ends[i].constraint_impulse =
                     solved.before[i].constraint_impulse

(***************************************************************************)
(* Claims on the order of the calls of Engine.update.                      *)
(***************************************************************************)
\* the places of the calls of a name in the latest Engine.update
CallsNamed(name) == {k \in 1..Len(callLog) : callLog[k].name = name}

\* the pass a call belongs to: the number of solve_all calls made up to it
PassOf(k) == Cardinality({j \in CallsNamed("solve_all") : j <= k})

SolvesOfPass(p) == {k \in CallsNamed("solve") : PassOf(k) = p}

\* the constraint has an endpoint that is absent or static
HasFixedEnd(c) ==
    \E end \in {engine.constraints[c].body_a, engine.constraints[c].body_b} :
        end = 0 \/ engine.bodies[end].is_static

\* C29: Engine.update calls pre_solve_all once, then solve_all
\* constraint_iterations times, then post_solve_all once; each solve_all solves
\* every constraint of the list exactly once, and those with a static or absent
\* endpoint before those whose two endpoints are present and not static.
C29_EachPassSolvesAllFixedFirst ==
    engineOp = "update" =>
        /\ Cardinality(CallsNamed("pre_solve_all")) = 1
        /\ Cardinality(CallsNamed("post_solve_all")) = 1
        /\ Cardinality(CallsNamed("solve_all")) = engine.constraint_iterations
        /\ \A k \in CallsNamed("solve_all") \cup CallsNamed("solve") :
               /\ \A i \in CallsNamed("pre_solve_all") : i < k
               /\ \A j \in CallsNamed("post_solve_all") : k < j
        /\ \A p \in 1..engine.constraint_iterations :
               /\ \A c \in 1..Len(engine.constraints) :
                      Cardinality({k \in SolvesOfPass(p) : callLog[k].arg = c}) = 1
               /\ \A k1, k2 \in SolvesOfPass(p) :
                      HasFixedEnd(callLog[k1].arg) /\ ~HasFixedEnd(callLog[k2].arg)
                          => k1 < k2
        /\ \A k \in CallsNamed("solve") : PassOf(k) >= 1

\* two passes on a list that names a free constraint before an anchored one
C29_Witness ==
    /\ engineOp = "update"
    /\ engine.constraint_iterations = 2
    /\ Len(engine.constraints) = 2
    /\ ~HasFixedEnd(1)
    /\ HasFixedEnd(2)

\* the phase of a call, 0 for the calls the order is not stated for
PhaseOf(name) ==
    CASE name = "gravity" -> 1
      [] name = "Body.update" -> 2
      [] name = "pre_solve_all" -> 3
      [] name \in {"solve_all", "solve"} -> 4
      [] name = "post_solve_all" -> 5
      [] name = "Detector.collisions" -> 6
      [] name = "Pairs.update" -> 7
      [] name = "pre_solve_position" -> 8
      [] name = "solve_position" -> 9
      [] name = "post_solve_position" -> 10
      [] name = "pre_solve_velocity" -> 11
      [] name = "solve_velocity" -> 12
      [] name = "clear_forces" -> 13
      [] OTHER -> 0

TakesForces(b) == ~b.is_static /\ ~b.is_sleeping

C23_StaticBodyIsNotMoved ==
    solverOp = "update" =>
        \A id \in DOMAIN solidBefore :
            solidBefore[id].is_static =>
                /\ solid[id].position = solidBefore[id].position
                /\ solid[id].position_prev = solidBefore[id].position_prev

\* the pair list without the active pairs of a sensor
SensorFree(bs, prs) ==
    SelectSeq(prs, LAMBDA pair : ~(pair.is_active /\ IsSensorPair(bs, pair)))

Motion(bs) ==
    [id \in DOMAIN bs |->
        <<bs[id].position_impulse, bs[id].position, bs[id].position_prev>>]

\* C26, as stated: after the five passes of the resolver, position_impulse,
\* position and position_prev of every body are what the same passes give on
\* the same bodies when the active sensor pairs are taken out of the list
\* (the boxes have no angle).
C26_SensorPairsDoNotAffectMotion ==
    solverOp = "update" =>
        Motion(solid) =
            Motion(Resolved(solidBefore,
                            SensorFree(solidBefore, Listed(pairs_list, pairObj)),
                            position_iterations))

\* the sum of contact_count over the active pairs of the list that have the
\* body id as a parent
RECURSIVE ContactsOf(_, _)
ContactsOf(prs, id) ==
    IF prs = <<>> THEN 0
    ELSE (IF Head(prs).is_active
             /\ id \in {Head(prs).collision.parent_a, Head(prs).collision.parent_b}
          THEN Head(prs).contact_count ELSE 0)
         + ContactsOf(Tail(prs), id)

\* C27, as stated: when solve_position is called, total_contacts of each parent
\* of an active pair is the sum of contact_count over the active pairs the
\* body belongs to in this update, and when Engine.update returns
\* total_contacts is 0 for every body of the world.
C27_TotalContactsAreOfThisUpdate ==
    solverOp = "update" =>
        /\ \A k \in 1..Len(pairs_list) :
               pairObj[pairs_list[k]].is_active =>
                   \A id \in {pairObj[pairs_list[k]].collision.parent_a,
                               pairObj[pairs_list[k]].collision.parent_b} :
                       counted[id] = ContactsOf(Listed(pairs_list, pairObj), id)
        /\ \A id \in WorldBodies(solid) : solid[id].total_contacts = 0

(***************************************************************************)
(* Claims on the sweep and prune.                                          *)
(***************************************************************************)
\* Bounds.overlaps: the bounds of the two bodies overlap on both axes
BoundsOverlap(body_a, body_b) ==
    /\ body_a.min_x <= body_b.max_x /\ body_a.max_x >= body_b.min_x
    /\ body_a.max_y >= body_b.min_y /\ body_a.min_y <= body_b.max_y

\* the brute-force test of a pair of bodies
Candidate(body_a, body_b) ==
    /\ BoundsOverlap(body_a, body_b)
    /\ ~(Idle(body_a) /\ Idle(body_b))
    /\ can_collide(body_a.collision_filter, body_b.collision_filter)

\* the body a vertex set given to Collision.collides belongs to
OwnerOf(id) == IF id \in SweepIds THEN id ELSE 1

\* the calls of the narrowphase on the pair of the bodies a and b
CallsOn(a, b) ==
    {k \in 1..Len(narrowCalls) :
        {OwnerOf(narrowCalls[k][1]), OwnerOf(narrowCalls[k][2])} = {a, b}}

\* one call on every candidate pair, none on any other pair
SweepIsBruteForce ==
    \A a, b \in SweepIds :
        a < b => Cardinality(CallsOn(a, b))
                   = IF Candidate(swept[a], swept[b]) THEN 1 ELSE 0

SingleParts == \A a \in SweepIds : Len(swept[a].parts) = 1

\* C22 as stated: whatever the order of the detector's body list,
\* Detector.collisions runs the narrowphase exactly once on every unordered
\* pair of bodies whose bounds overlap on both the x and the y axis, that are
\* not both static-or-sleeping and whose filters allow a collision, and on no
\* other pair: the sweep-and-prune result equals a brute-force test of all
\* pairs.
C22_SweepEqualsBruteForce ==
    (sweepOp = "collisions") => SweepIsBruteForce

\* C22, for bodies of a single part: whatever the order of the detector's
\* body list, Detector.collisions runs the narrowphase exactly once on every
\* unordered pair of bodies whose bounds overlap on both axes, that are not
\* both static-or-sleeping and whose filters allow a collision, and on no
\* other pair.
C22_SweepEqualsBruteForceOnSingleParts ==
    (sweepOp = "collisions" /\ SingleParts) => SweepIsBruteForce

\* the list was not in the order of min.x, the narrowphase ran on a pair of
\* bodies that only touch, and the sweep cut another pair off
C22_Witness ==
    /\ sweepOp = "collisions"
    /\ SingleParts
    /\ listed # SortedByMinX(swept, listed)
    /\ \E a, b \in SweepIds :
          /\ swept[a].max_x = swept[b].min_x
          /\ CallsOn(a, b) # {}
    /\ \E a, b \in SweepIds :
          swept[a].max_x < swept[b].min_x /\ CallsOn(a, b) = {}

(***************************************************************************)
(* Claims on waking.                                                       *)
(***************************************************************************)
\* the pair is active, i is one of its parents and j the other one; before
\* the call i was asleep and not static, j was neither static nor asleep and
\* moved more than the wake threshold times the motion of i
WakesBy(pair, i, j) ==
    /\ pair.is_active
    /\ {pair.parent_a, pair.parent_b} = {i, j}
    /\ crowdBefore[i].is_sleeping /\ ~crowdBefore[i].is_static
    /\ ~crowdBefore[j].is_static /\ ~crowdBefore[j].is_sleeping
    /\ Less(Mul(crowdBefore[i].motion, _motion_wake_threshold),
            crowdBefore[j].motion)

\* body i slept before the call and is awake after it
WokenUp(i) == crowdBefore[i].is_sleeping /\ ~crowd[i].is_sleeping

\* a body is woken iff some pair of the list wakes it, and no body is put to
\* sleep
WakesExactly ==
    \A i \in CrowdIds :
        /\ WokenUp(i) <=>
              \E k \in 1..Len(started), j \in CrowdIds \ {i} :
                  WakesBy(started[k], i, j)
        /\ crowd[i].is_sleeping => crowdBefore[i].is_sleeping

\* C28: Sleeping.after_collisions wakes a body iff, for some active
\* pair in the given start list, exactly one of the two parents is sleeping
\* (and is not static), the other parent is neither static nor sleeping, and
\* the awake parent's motion is greater than 0.18 times the sleeper's motion;
\* it changes the is_sleeping flag of no other body and never puts a body to
\* sleep.
C28_WakesSleeperOfMovingPartner ==
    (wakeOp = "after_collisions") => WakesExactly

(***************************************************************************)
(* Claims on the collision lists.                                          *)
(***************************************************************************)
\* C24: a pair is placed in collision_end (and so reported by a collisionEnd
\* event) only in the update in which it changes from active to inactive: a
\* cached pair that was already inactive when the update began is not placed
\* in collision_end again.
C24_EndedOnlyWhenItWasActive ==
    (pairsOp = "update") =>
        \A k \in 1..Len(collision_end) : collision_end[k] \in wasActive

\* the number of places of the sequence s that hold x
Occurrences(s, x) == Cardinality({k \in 1..Len(s) : s[k] = x})

\* C25: for any collision list, including one that holds several collisions
\* between parts of the same two parent bodies (compound bodies), each pair
\* appears at most once in collision_start and collision_active taken
\* together after Pairs.update, and at most once in the pair list.
C25_PairListedOnce ==
    (pairsOp = "update") =>
        \A id \in pairs_table :
            /\ Occurrences(collision_start, id)
                  + Occurrences(collision_active, id) <= 1
            /\ Occurrences(pairs_list, id) <= 1

(***************************************************************************)
(* Claims on supports.                                                     *)
(***************************************************************************)
\* the bodies of the record returned overlap, and neither support vertex of
\* either of them lies inside the other
NoSupportInside ==
    /\ returned.collided
    /\ FromA(rects, rects[returned.body_b],
             FromB(rects, rects[returned.body_a],
                   _find_supports(rects[returned.body_a],
                                  rects[returned.body_b], returned.normal, 1)),
             _find_supports(rects[returned.body_b], rects[returned.body_a],
                            returned.normal, 0 - 1)) = <<>>

\* C21: when two polygons overlap but no candidate support vertex of either
\* lies inside the other polygon, Collision.collides reports exactly one
\* contact (support_count = 1) and that contact is the first support vertex
\* found on body_b, i.e. a vertex of body_b.
C21_FallbackIsFirstSupportOfB ==
    (collOp = "collides" /\ NoSupportInside) =>
        /\ returned.support_count = 1
        /\ returned.supports[1] =
               _find_supports(rects[returned.body_a], rects[returned.body_b],
                              returned.normal, 1)[1]
        /\ returned.supports[1].body = returned.body_b

(***************************************************************************)
(* Claims on contacts.                                                     *)
(***************************************************************************)
\* C19: after every Pairs.update fed with the output of Detector.collisions,
\* every pair with is_active = true has contact_count equal to 1 or 2.
C19_ActivePairsHaveOneOrTwoContacts ==
    \A id \in Range(pairs_list) :
        pairObj[id].is_active => pairObj[id].contact_count \in {1, 2}

\* two rectangles that overlap without a vertex of one inside the other have
\* gone through an update: their pair is active on the one support of the
\* fallback
C19_Witness ==
    /\ collOp = "update"
    /\ returned.collided
    /\ FromA(rects, rects[returned.body_b],
             FromB(rects, rects[returned.body_a],
                   _find_supports(rects[returned.body_a],
                                  rects[returned.body_b], returned.normal, 1)),
             _find_supports(rects[returned.body_b], rects[returned.body_a],
                            returned.normal, 0 - 1)) = <<>>
    /\ \E id \in Range(pairs_list) :
          pairObj[id].is_active /\ pairObj[id].contact_count = 1

(***************************************************************************)
(* Claims on pair ids.                                                     *)
(***************************************************************************)
\* C17: Pairs.id_from_bodies(A, B) = Pairs.id_from_bodies(B, A) for any two
\* bodies, and two different unordered pairs of body ids never receive the
\* same pair id: the id a call returned is the id of two bodies exactly when
\* they are the two bodies of the call, in either order.
C17_PairIdOfUnorderedPair ==
    \A k \in 1..Len(idCalls) :
        \A body_a, body_b \in AllBodyIds :
            (id_from_bodies(body_a, body_b) = idCalls[k].id)
                <=> ({body_a, body_b} = {idCalls[k].a, idCalls[k].b})

\* the call had the larger id first, one id with two digits and one with one
C17_Witness ==
    /\ Len(idCalls) = 1
    /\ idCalls[1].a >= 10
    /\ idCalls[1].b < 10
    /\ idCalls[1].id = FormatId(idCalls[1].b, idCalls[1].a)

(***************************************************************************)
(* Claims on velocities.                                                   *)
(***************************************************************************)
\* C20 as stated: for any body with delta_time > 0 and any vector v,
\* Body.get_velocity(body) called right after Body.set_velocity(body, v)
\* returns v, and set_velocity leaves the body's position unchanged.
C20_GetVelocityReturnsSetVelocity ==
    (velOp = "get_velocity") =>
        /\ got = asked.velocity
        /\ mover.position = asked.position

\* C20: for any body with delta_time > 0 and any vector v, set_velocity
\* leaves the body's position unchanged, and Body.get_velocity(body) called
\* right after Body.set_velocity(body, v) returns v when none of the float
\* operations of the two calls rounds its result.
C20_GetVelocityReturnsSetVelocityUnlessRounded ==
    /\ (velOp \in {"set_velocity", "get_velocity"}) =>
            mover.position = asked.position
    /\ (velOp = "get_velocity" /\ ~rounded) => got = asked.velocity

\* a velocity that is not zero came back from a body whose step length is not
\* the base one
C20_Witness ==
    /\ velOp = "get_velocity"
    /\ ~rounded
    /\ mover.delta_time # _base_delta
    /\ asked.velocity.n # 0
    /\ mover.position.n # 0
    /\ got = asked.velocity

(***************************************************************************)
(* Claims on sleeping.                                                     *)
(***************************************************************************)
\* the latest call was a Sleeping.update that found the body awake
UpdatedAwake == sleepOp = "update" /\ ~before.is_sleeping

\* was motion below the sleep threshold in the latest update
BelowNow == recent[Len(recent)]

\* C8 as stated: with delta equal to the base delta, Sleeping.update puts an
\* awake body to sleep only when its averaged motion was below the sleep
\* threshold in each of the immediately preceding sleep_threshold updates, and
\* any tick at or above the threshold restarts the count.
C8_SleepsAfterConsecutiveTicks ==
    UpdatedAwake =>
        /\ sleeper.is_sleeping =>
              /\ Len(recent) = SleepThreshold
              /\ \A k \in 1..Len(recent) : recent[k]
        /\ ~BelowNow => sleeper.sleep_counter = 0

\* C8: with delta equal to the base delta, Sleeping.update puts an awake body
\* to sleep exactly in an update in which its averaged motion is below the
\* sleep threshold and its sleep_counter, raised by one for this tick, reaches
\* sleep_threshold; a tick at or above the threshold lowers sleep_counter by
\* one, not below 0, and does not restart the count.
C8_SleepsWhenCounterReachesThreshold ==
    UpdatedAwake =>
        /\ sleeper.is_sleeping <=>
              (BelowNow /\ before.sleep_counter + 1 >= SleepThreshold)
        /\ sleeper.is_sleeping => sleeper.sleep_counter = SleepThreshold
        /\ (BelowNow /\ ~sleeper.is_sleeping) =>
              sleeper.sleep_counter = before.sleep_counter + 1
        /\ ~BelowNow =>
              sleeper.sleep_counter =
                  IF before.sleep_counter > 0 THEN before.sleep_counter - 1
                  ELSE 0

\* an update puts the body to sleep although one of the latest sleep_threshold
\* ticks was at or above the threshold
C8_Witness ==
    /\ UpdatedAwake
    /\ sleeper.is_sleeping
    /\ \E k \in 1..Len(recent) : ~recent[k]

\* C9: whenever a body goes from sleeping to awake, through
\* Sleeping.set_sleeping(body, false), Sleeping.after_collisions on a started
\* pair or Constraint.post_solve_all for a non-zero constraint impulse, its
\* is_sleeping is false and its sleep_counter is 0 immediately afterwards.
C9_WakeResetsCounter ==
    (sleepOp \in {"set_sleeping_false", "after_collisions", "post_solve_all"}
       /\ before.is_sleeping /\ ~sleeper.is_sleeping) =>
        sleeper.sleep_counter = 0

\* C10 as stated: set_sleeping(b, true) applied twice leaves the body as
\* applying it once does; set_sleeping(b, false) on an awake body changes no
\* field, whatever its sleep_counter, and on a sleeping body it clears
\* is_sleeping.
C10_SetSleepingIdempotent ==
    /\ sleepOp = "set_sleeping_true" =>
          set_sleeping(sleeper, TRUE) = sleeper
    /\ (sleepOp = "set_sleeping_false" /\ ~before.is_sleeping) =>
          sleeper = before
    /\ (sleepOp = "set_sleeping_false" /\ before.is_sleeping) =>
          ~sleeper.is_sleeping

\* C10: set_sleeping(b, true) applied twice leaves the body as applying it
\* once does; set_sleeping(b, false) on an awake body changes no field but
\* sleep_counter, which it sets to 0, and on a sleeping body it clears
\* is_sleeping.
C10_SetSleepingAwakeResetsCounter ==
    /\ sleepOp = "set_sleeping_true" =>
          /\ sleeper.is_sleeping
          /\ set_sleeping(sleeper, TRUE) = sleeper
    /\ (sleepOp = "set_sleeping_false" /\ ~before.is_sleeping) =>
          sleeper = [before EXCEPT !.sleep_counter = 0]
    /\ (sleepOp = "set_sleeping_false" /\ before.is_sleeping) =>
          ~sleeper.is_sleeping

\* set_sleeping(b, false) on an awake body whose sleep_counter is not 0
C10_Witness ==
    /\ sleepOp = "set_sleeping_false"
    /\ ~before.is_sleeping
    /\ before.sleep_counter > 0
    /\ sleeper.sleep_counter = 0

(***************************************************************************)
(* Claims on the narrowphase.                                              *)
(***************************************************************************)
\* the latest operation was a Collision.collides that returned a record
Collided == collOp = "collides" /\ returned.collided

\* normal . (body_b.position - body_a.position) of the returned record
NormalDotDelta ==
    Dot(returned.normal,
        Vec(rects[returned.body_b].position.x
              - rects[returned.body_a].position.x,
            rects[returned.body_b].position.y
              - rects[returned.body_a].position.y))

Init ==
    /\ InitPairs
    /\ InitComposite
    /\ InitBody
    /\ InitSleeping
    /\ InitCollision
    /\ InitIds
    /\ InitVelocity
    /\ InitDetector
    /\ InitConstraint
    /\ InitWake
    /\ InitSweep
    /\ InitSolver
    /\ InitEngine

Next ==
    \/ NextPairs
    \/ NextResolver
    \/ NextComposite
    \/ NextBody
    \/ NextCompound
    \/ NextSleeping
    \/ NextCollision
    \/ NextIds
    \/ NextVelocity
    \/ NextDetector
    \/ NextFilter
    \/ NextContacts
    \/ NextConstraint
    \/ NextWake
    \/ NextSweep
    \/ NextSolver
    \/ NextEngine

SpecPairs == Init /\ [][NextPairs]_vars

SpecResolver == Init /\ [][NextResolver]_vars

SpecComposite == Init /\ [][NextComposite]_vars

SpecBody == Init /\ [][NextBody]_vars

SpecCompound == Init /\ [][NextCompound]_vars

SpecSleeping == Init /\ [][NextSleeping]_vars

SpecCollision == Init /\ [][NextCollision]_vars

SpecIds == Init /\ [][NextIds]_vars

SpecVelocity == Init /\ [][NextVelocity]_vars

SpecDetector == Init /\ [][NextDetector]_vars

SpecFilter == Init /\ [][NextFilter]_vars

SpecContacts == Init /\ [][NextContacts]_vars

SpecConstraint == Init /\ [][NextConstraint]_vars

SpecWake == Init /\ [][NextWake]_vars

SpecSweep == Init /\ [][NextSweep]_vars

SpecSolver == Init /\ [][NextSolver]_vars

SpecEngine == Init /\ [][NextEngine]_vars

Spec == Init /\ [][Next]_vars

====
